---- MODULE Spec2Model ----
(***************************************************************************)
(* Verification model of the SELJI workflow engine server:                 *)
(*   - the short-URL expander (server/routes/amazon.js and the variant     *)
(*     with robustFetch kept in unnamed/part_003),                         *)
(*   - the PA-API lookup and its request signer (server/index.js),         *)
(*   - the settings rows of section 'paapi' behind them (server/db.js).    *)
(* Strings are sequences of one-character strings, so that trimming and    *)
(* pattern matching are computed character by character.                   *)
(***************************************************************************)
EXTENDS Integers, Sequences, FiniteSets, TLC

VARIABLES
    impl,        \* which expander is deployed: "routes" or "robust"
    urls,        \* req.body.urls of the expand request
    idx,         \* position of the for-of loop over urls (1-based)
    results,     \* the results array of the expand handler
    pc,          \* position of the expand handler
    attempt,     \* robustFetch: the loop variable attempt (0: no fetch issued)
    timers,      \* attempts whose abort timer is armed
    waits,       \* backoff delays slept so far for the current URL
    lastErr,     \* robustFetch: the err caught by the attempt that is backing off
    resolution,  \* how the resolution of the URL processed last went
    expandResp,  \* HTTP answer of the expand handler
    settings,    \* settings rows of section 'paapi': name -> value or NoRow
    lookup,      \* state of the POST /api/paapi/get-items handler
    outbound,    \* outbound PA-API calls issued by the current lookup request
    signIn,      \* arguments of a direct call of signPaapiRequest
    signOut,     \* what that call returned
    SECRET_KEY,  \* process.env.SECRET_ENC_KEY || null of the running process
    cipher,      \* an envelope on its way from encryptSecret to decryptSecret
    secretRows,  \* rows of the secrets table: name -> value_encrypted or NoRow
    secretResp,  \* HTTP answer of the secrets route called last
    extractIn,   \* argument of a direct call of extractAsin
    extractOut,  \* what that call returned
    store,       \* the zustand store of the web client: one namespace per workflow
    ui,          \* local state of the ShortUrlAsinExpander component
    settingsTable \* the settings table with its columns, its id sequence and the clock

expandVars == <<impl, urls, idx, results, pc, attempt, timers, waits, lastErr, resolution,
               expandResp>>
lookupVars == <<settings, lookup, outbound>>
signVars == <<signIn, signOut>>
secretVars == <<SECRET_KEY, cipher, secretRows, secretResp>>
extractVars == <<extractIn, extractOut>>
clientVars == <<store, ui>>
vars == <<impl, urls, idx, results, pc, attempt, timers, waits, lastErr, resolution, expandResp,
          settings, lookup, outbound, signIn, signOut, SECRET_KEY, cipher, secretRows,
          secretResp, extractIn, extractOut,
          store, ui, settingsTable>>

\* what an action of one component leaves alone in the others
ExpandOnly ==
    UNCHANGED <<settingsTable, settings, lookup, outbound, signIn, signOut, SECRET_KEY, cipher,
                secretRows,
                secretResp, extractIn, extractOut,
                store, ui>>
LookupOnly ==
    UNCHANGED <<settingsTable, impl, urls, idx, results, pc, attempt, timers, waits,
                lastErr, resolution,
                expandResp, signIn, signOut, SECRET_KEY, cipher, secretRows, secretResp,
                extractIn, extractOut,
                store, ui>>
SecretsOnly ==
    UNCHANGED <<settingsTable, impl, urls, idx, results, pc, attempt, timers, waits,
                lastErr, resolution,
                expandResp, settings, lookup, outbound, signIn, signOut, extractIn,
                extractOut,
                store, ui>>

----------------------------------------------------------------------------
(* Bounds of the model *)

MaxUrls == 2

----------------------------------------------------------------------------
(* Characters and strings *)

UpperChars == <<"A","B","C","D","E","F","G","H","I","J","K","L","M",
                "N","O","P","Q","R","S","T","U","V","W","X","Y","Z">>
LowerChars == <<"a","b","c","d","e","f","g","h","i","j","k","l","m",
                "n","o","p","q","r","s","t","u","v","w","x","y","z">>
DigitChars == {"0","1","2","3","4","5","6","7","8","9"}

Range(f) == {f[i] : i \in DOMAIN f}

UpperSet == Range(UpperChars)
LowerSet == Range(LowerChars)
AlnumChars == UpperSet \cup LowerSet \cup DigitChars

\* the character class [A-Z0-9] under the i flag
IsAlnum(c) == c \in AlnumChars

UpperOf == [c \in LowerSet |-> UpperChars[CHOOSE i \in 1..26 : LowerChars[i] = c]]

ToUpperChar(c) == IF c \in LowerSet THEN UpperOf[c] ELSE c

ToUpperCase(s) == [i \in 1..Len(s) |-> ToUpperChar(s[i])]

IsSpace(c) == c \in {" ", "\t", "\n"}

RECURSIVE TrimStart(_)
TrimStart(s) ==
    IF s # <<>> /\ IsSpace(Head(s)) THEN TrimStart(Tail(s)) ELSE s

RECURSIVE TrimEnd(_)
TrimEnd(s) ==
    IF s # <<>> /\ IsSpace(s[Len(s)]) THEN TrimEnd(SubSeq(s, 1, Len(s) - 1)) ELSE s

Trim(s) == TrimEnd(TrimStart(s))

----------------------------------------------------------------------------
(* JSON / JavaScript values that travel through the expander *)

JsNull == [t |-> "null", s |-> <<>>]
JsString(s) == [t |-> "string", s |-> s]
JsArray1(s) == [t |-> "array", s |-> s]
JsNumber == [t |-> "number", s |-> <<>>]
Text(m) == [t |-> "string", s |-> <<m>>]

Truthy(v) ==
    CASE v.t = "null" -> FALSE
      [] v.t = "string" -> v.s # <<>>
      [] OTHER -> TRUE

\* `${input}` / new URL(input): the string a value is fetched as
StringOf(v) ==
    CASE v.t = "string" -> v.s
      [] v.t = "array" -> v.s
      [] v.t = "number" -> <<"1","2","3">>
      [] OTHER -> <<"n","u","l","l">>

HttpsPrefix == <<"h","t","t","p","s",":","/","/">>

HasPrefixAt(s, i, p) ==
    /\ i + Len(p) - 1 <= Len(s)
    /\ \A k \in 1..Len(p) : s[i + k - 1] = p[k]

IsAbsoluteUrl(s) == HasPrefixAt(s, 1, HttpsPrefix) /\ Len(s) > Len(HttpsPrefix)

----------------------------------------------------------------------------
(* The store of the web client and the ShortUrlAsinExpander component *)

JsList(items) == [t |-> "array", s |-> items]

PaapiStoreFields ==
    {"accessKey", "secretKey", "partnerTag", "marketplace", "region", "host", "asins",
     "response", "error"}

InitialPaapi ==
    [f \in PaapiStoreFields |-> IF f \in {"response", "error"} THEN JsNull ELSE JsString(<<>>)]
InitialAsinExpander == [rawInput |-> JsString(<<>>), results |-> JsList(<<>>)]
InitialStore == [paapi |-> InitialPaapi, asinExpander |-> InitialAsinExpander]

\* a set that puts every namespace it was not given back to its initial value
SetStateResetting(state, partial) ==
    [k \in DOMAIN state |-> IF k \in DOMAIN partial THEN partial[k] ELSE InitialStore[k]]

\* set(partial) of zustand: the members of partial replace those of the state
SetState(state, partial) ==
    [k \in DOMAIN state \cup DOMAIN partial |->
        IF k \in DOMAIN partial THEN partial[k] ELSE state[k]]

\* { ...namespace, [field]: value }
WithField(namespace, field, value) ==
    [f \in DOMAIN namespace \cup {field} |-> IF f = field THEN value ELSE namespace[f]]

setPaapiField(state, field, value) ==
    SetState(state, [paapi |-> WithField(state.paapi, field, value)])
clearPaapi(state) == SetState(state, [paapi |-> InitialPaapi])
setAsinExpanderField(state, field, value) ==
    SetState(state, [asinExpander |-> WithField(state.asinExpander, field, value)])
clearAsinExpander(state) == SetState(state, [asinExpander |-> InitialAsinExpander])

\* what the user may have in the text field: nothing, text without a URL, a
\* short URL without its scheme
RawInputs == {<<>>, <<"x">>, <<"a.co/1">>}
\* parseInputToUrls: tokens that are no URL are dropped, a.co/... gets https://
parseInputToUrls(raw) == IF raw = <<"a.co/1">> THEN <<"https://a.co/1">> ELSE <<>>

\* fields and values the set-field operations are called with; rawInput is no
\* field of paapi and accessKey none of asinExpander
PaapiSetFields == {"accessKey", "error", "rawInput"}
ExpanderSetFields == {"rawInput", "accessKey"}
FieldValues == {JsString(raw) : raw \in RawInputs} \cup {JsNull}

NoError == "#null"
UiIdle == [loading |-> FALSE, error |-> NoError, cleared |-> FALSE]

----------------------------------------------------------------------------
(* extractAsin: ordered patterns over the resolved URL *)

AsinLen == 10

MarkerDp == <<"/","d","p","/">>
MarkerGpProduct == <<"/","g","p","/","p","r","o","d","u","c","t","/">>
MarkerGpAwD == <<"/","g","p","/","a","w","/","d","/">>
MarkerProduct == <<"/","p","r","o","d","u","c","t","/">>
MarkerAny == <<"/">>

\* the patterns array of each variant of extractAsin, in source order
Patterns(im) ==
    IF im = "robust"
    THEN <<MarkerDp, MarkerGpProduct, MarkerGpAwD, MarkerProduct>>
    ELSE <<MarkerDp, MarkerGpProduct, MarkerGpAwD>>

\* /<marker>([A-Z0-9]{10})(?=[/?]|$|\?)/i matches s at position i
MatchesAt(s, i, marker) ==
    LET c == i + Len(marker)      \* first character of the captured group
        e == c + AsinLen          \* first character after it
    IN  /\ e - 1 <= Len(s)
        /\ \A k \in 1..Len(marker) : ToUpperChar(s[i + k - 1]) = ToUpperChar(marker[k])
        /\ \A k \in c..(e - 1) : IsAlnum(s[k])
        /\ (e = Len(s) + 1 \/ s[e] \in {"/", "?"})

HasMatch(s, marker) == \E i \in 1..Len(s) : MatchesAt(s, i, marker)

\* String.prototype.match without the g flag: group 1 of the leftmost match
Group1(s, marker) ==
    LET i == CHOOSE j \in 1..Len(s) :
                 /\ MatchesAt(s, j, marker)
                 /\ \A h \in 1..(j - 1) : ~MatchesAt(s, h, marker)
    IN  SubSeq(s, i + Len(marker), i + Len(marker) + AsinLen - 1)

RECURSIVE FirstPattern(_, _, _)
FirstPattern(s, pats, k) ==
    IF k > Len(pats) THEN <<>>
    ELSE IF HasMatch(s, pats[k]) THEN ToUpperCase(Group1(s, pats[k]))
    ELSE FirstPattern(s, pats, k + 1)

\* extractAsin(finalUrl): threw = TypeError (finalUrl.match is not a function)
extractAsin(im, finalUrl) ==
    IF ~Truthy(finalUrl) THEN [threw |-> FALSE, val |-> JsNull]
    ELSE IF finalUrl.t # "string" THEN [threw |-> TRUE, val |-> JsNull]
    ELSE LET m == FirstPattern(finalUrl.s, Patterns(im), 1) IN
         IF m # <<>> THEN [threw |-> FALSE, val |-> JsString(m)]
         ELSE IF HasMatch(finalUrl.s, MarkerAny)
              THEN [threw |-> FALSE, val |-> JsString(ToUpperCase(Group1(finalUrl.s, MarkerAny)))]
              ELSE [threw |-> FALSE, val |-> JsNull]

\* extractAsin not called yet
NotExtracted == [called |-> FALSE, threw |-> FALSE, val |-> JsNull]

\* a 10-character code, told from the others by its third character
Code(c) == <<"b","0",c,"0","0","0","0","0","0","1">>

SegDp == MarkerDp \o Code("1")
SegGpProduct == MarkerGpProduct \o Code("2")
SegGpAwD == MarkerGpAwD \o Code("3")
SegProduct == MarkerProduct \o Code("4")
SegBare == MarkerAny \o Code("5")
SegPlain == <<"/","x">>
\* eleven characters after the marker: no pattern matches
SegLong == MarkerDp \o Code("6") \o <<"7">>
SegDpUpper == <<"/","D","P","/">> \o Code("8")

Segments == {SegDp, SegGpProduct, SegGpAwD, SegProduct, SegBare, SegPlain, SegLong, SegDpUpper}

MaxSegments == 3

UrlHost == HttpsPrefix \o <<"a",".","c","o">>
UrlTails == {<<>>, <<"?","q">>}

RECURSIVE Paths(_)
Paths(n) ==
    IF n = 0 THEN {<<>>}
    ELSE Paths(n - 1) \cup {p \o g : p \in Paths(n - 1), g \in Segments}

\* the resolved URLs extractAsin is applied to
ExtractUrls == {UrlHost \o p \o t : p \in Paths(MaxSegments) \ {<<>>}, t \in UrlTails}

\* extractAsin(finalUrl) called directly
ExtractCall ==
    /\ ~extractOut.called
    /\ LET r == extractAsin(impl, JsString(extractIn)) IN
       extractOut' = [called |-> TRUE, threw |-> r.threw, val |-> r.val]
    /\ UNCHANGED <<settingsTable, impl, urls, idx, results, pc, attempt, timers, waits,
                   lastErr, resolution,
                   expandResp, settings, lookup, outbound, signIn, signOut, SECRET_KEY,
                   cipher, secretRows, secretResp, extractIn, store, ui>>

NextExtract ==
    \/ ExtractCall

----------------------------------------------------------------------------
(* The transport under the expander *)

\* a retry limit that is one too high
RetriesOneMore == 4 + 1

\* the options expandShortAmazonUrl passes to robustFetch
Retries == 4
Backoff == 800

Resp(u, st) == [k |-> "resp", url |-> u, status |-> st, name |-> "", code |-> ""]
Err(n, c) == [k |-> "err", url |-> <<>>, status |-> 0, name |-> n, code |-> c]
NoOutcome == [k |-> "none", url |-> <<>>, status |-> 0, name |-> "", code |-> ""]

AbortErr == Err("AbortError", "")
TypeErr == Err("TypeError", "")
NetErrors == {Err("FetchError", "ECONNRESET"), Err("FetchError", "ENOTFOUND"),
              Err("FetchError", "ECONNREFUSED"), Err("FetchError", "ETIMEDOUT"),
              Err("FetchError", "")}

ShortUrl == <<"h","t","t","p","s",":","/","/","a",".","c","o","/","3","x","Y">>
DpUrl == <<"h","t","t","p","s",":","/","/","a",".","c","o","/","d","p","/","B","0","A","B","C","D","E","F","G","H">>
RespDpUrl == <<"h","t","t","p","s",":","/","/","a",".","c","o","/","d","p","/","b","0","a","b","c","d","e","f","g","h","?","t">>
RespHelpUrl == <<"h","t","t","p","s",":","/","/","a",".","c","o","/","g","p","/","h","e","l","p">>

\* elements a client may put in req.body.urls
UrlInputs == {JsString(ShortUrl), JsString(DpUrl), JsArray1(ShortUrl), JsNumber, JsNull}
\* resp.url of a response, and its status
ResponseUrls == {RespDpUrl, RespHelpUrl}
Statuses == {200, 404}

Fetchable(url) == url.t \in {"string", "array"} /\ IsAbsoluteUrl(StringOf(url))

\* errors fetch(url) may reject with, the abort of the timeout timer excluded
FetchErrors(url) == IF Fetchable(url) THEN NetErrors ELSE {TypeErr}

----------------------------------------------------------------------------
(* robustFetch, expandShortAmazonUrl, expandSingleUrl *)

\* a transient test that lets every error through (err.code read as a flag)
transientAny(err) == err.name = "AbortError" \/ err.k = "err"

transient(err) ==
    \/ err.name = "AbortError"
    \/ err.code = "ECONNRESET"
    \/ err.code = "ENOTFOUND"
    \/ err.code = "ECONNREFUSED"

\* the catch branch of robustFetch: TRUE when the error is rethrown
robustFetchThrows(att, err) ==
    LET isLast == att = Retries IN isLast \/ ~transient(err)

\* a doubling schedule
BackoffDelayDoubling(att) == Backoff * 2^att

BackoffDelay(att) == Backoff * att

\* a fallback that loses the input URL
expandShortAmazonUrlNull(im, url, o) ==
    IF o.k = "resp"
    THEN [threw |-> FALSE,
          val |-> IF im = "robust" /\ o.url = <<>> THEN url ELSE JsString(o.url)]
    ELSE [threw |-> FALSE, val |-> JsNull]

\* no catch around the fetch: the failure is rethrown
expandShortAmazonUrlRethrows(im, url, o) ==
    IF o.k = "resp"
    THEN [threw |-> FALSE,
          val |-> IF im = "robust" /\ o.url = <<>> THEN url ELSE JsString(o.url)]
    ELSE [threw |-> TRUE, val |-> url]

\* the response URL is used only when the status is 200
expandShortAmazonUrlOkOnly(im, url, o) ==
    IF o.k = "resp" /\ o.status = 200
    THEN [threw |-> FALSE,
          val |-> IF im = "robust" /\ o.url = <<>> THEN url ELSE JsString(o.url)]
    ELSE [threw |-> FALSE, val |-> url]

\* expandShortAmazonUrl once its fetch has ended with outcome o
expandShortAmazonUrl(im, url, o) ==
    IF o.k = "resp"
    THEN [threw |-> FALSE,
          val |-> IF im = "robust" /\ o.url = <<>> THEN url ELSE JsString(o.url)]
    ELSE [threw |-> FALSE, val |-> url]

\* the error is derived from finalUrl instead of asin
expandSingleUrlErrorFromUrl(im, url, o) ==
    LET f == expandShortAmazonUrl(im, url, o) IN
    IF f.threw THEN [threw |-> TRUE, message |-> o.name, val |-> JsNull]
    ELSE LET a == extractAsin(im, f.val) IN
         IF a.threw
         THEN [threw |-> TRUE, message |-> "finalUrl.match is not a function", val |-> JsNull]
         ELSE [threw |-> FALSE, message |-> "",
               val |-> [url |-> url, finalUrl |-> f.val, asin |-> a.val,
                        error |-> IF Truthy(f.val) THEN JsNull ELSE Text("ASIN not found")]]

expandSingleUrl(im, url, o) ==
    LET f == expandShortAmazonUrl(im, url, o) IN
    IF f.threw THEN [threw |-> TRUE, message |-> o.name, val |-> JsNull]
    ELSE LET a == extractAsin(im, f.val) IN
         IF a.threw
         THEN [threw |-> TRUE, message |-> "finalUrl.match is not a function", val |-> JsNull]
         ELSE [threw |-> FALSE, message |-> "",
               val |-> [url |-> url, finalUrl |-> f.val, asin |-> a.val,
                        error |-> IF Truthy(a.val) THEN JsNull ELSE Text("ASIN not found")]]

\* a loop body without the inner try/catch
LoopBodyNoCatch(im, url, o) ==
    LET r == expandSingleUrl(im, url, o) IN
    IF r.threw
    THEN [threw |-> TRUE,
          entry |-> [url |-> url, finalUrl |-> JsNull, asin |-> JsNull,
                     error |-> Text("Expansion failed")]]
    ELSE [threw |-> FALSE, entry |-> r.val]

\* body of the for-of loop of the route: try expandSingleUrl, catch -> error entry
\* threw: the exception leaves the loop and reaches the catch of the handler
LoopBody(im, url, o) ==
    LET r == expandSingleUrl(im, url, o) IN
    IF r.threw
    THEN [threw |-> FALSE,
          entry |-> [url |-> url, finalUrl |-> JsNull, asin |-> JsNull,
                     error |-> IF r.message # "" THEN Text(r.message)
                               ELSE Text("Expansion failed")]]
    ELSE [threw |-> FALSE, entry |-> r.val]

----------------------------------------------------------------------------
(* POST /api/expand-amazon-urls *)

RECURSIVE SeqsUpTo(_, _)
SeqsUpTo(S, n) ==
    IF n = 0 THEN {<<>>}
    ELSE LET shorter == SeqsUpTo(S, n - 1) IN
         shorter \cup {Append(q, x) : q \in {r \in shorter : Len(r) = n - 1}, x \in S}

NoResp == [status |-> 0, results |-> <<>>]
NoResolution ==
    [attempts |-> 0, waits |-> <<>>, last |-> NoOutcome,
     short |-> [threw |-> FALSE, val |-> JsNull]]

\* if (!Array.isArray(urls) || !urls.length) return res.status(400)
ExpandReject ==
    /\ ExpandOnly
    /\ pc = "loop" /\ urls = <<>>
    /\ expandResp' = [status |-> 400, results |-> <<>>]
    /\ pc' = "done"
    /\ UNCHANGED <<impl, urls, idx, results, attempt, timers, waits, lastErr, resolution>>

\* next iteration of the loop: expandSingleUrl(u) issues the first fetch
BeginUrl ==
    /\ ExpandOnly
    /\ pc = "loop" /\ idx <= Len(urls)
    /\ attempt' = 1
    /\ timers' = IF impl = "robust" THEN timers \cup {1} ELSE timers
    /\ waits' = <<>>
    /\ pc' = "fetching"
    /\ UNCHANGED <<impl, urls, idx, results, lastErr, resolution, expandResp>>

\* the resolution of urls[idx] ended with outcome o: the rest of the loop body
CompleteUrl(o) ==
    LET lb == LoopBody(impl, urls[idx], o) IN
    /\ resolution' = [attempts |-> attempt, waits |-> waits, last |-> o,
                      short |-> expandShortAmazonUrl(impl, urls[idx], o)]
    /\ attempt' = 0
    /\ lastErr' = NoOutcome
    /\ IF lb.threw
       THEN /\ expandResp' = [status |-> 500, results |-> <<>>]
            /\ pc' = "done"
            /\ UNCHANGED <<results, idx>>
       ELSE /\ results' = Append(results, lb.entry)
            /\ idx' = idx + 1
            /\ pc' = "loop"
            /\ UNCHANGED expandResp
    /\ UNCHANGED <<impl, urls, waits>>

\* a clearTimeout that is never made
clearTimeoutForgotten(armed, id) == armed

\* clearTimeout(id): the timer of the attempt is no longer armed
clearTimeout(armed, id) == armed \ {id}

\* the fetch attempts awaited at the moment: robustFetch is suspended at its
\* await fetch(...) exactly while the fetch of the current attempt is pending
InFlight == IF pc = "fetching" THEN {attempt} ELSE {}

\* the catch branch around the fetch of the current attempt
HandleError(err, armed) ==
    IF impl = "robust" /\ ~robustFetchThrows(attempt, err)
    THEN /\ timers' = clearTimeout(armed, attempt)
         /\ waits' = Append(waits, BackoffDelay(attempt))
         /\ lastErr' = err
         /\ pc' = "backoff"
         /\ UNCHANGED <<impl, urls, idx, results, attempt, resolution, expandResp>>
    ELSE /\ timers' = clearTimeout(armed, attempt)
         /\ CompleteUrl(err)

\* fetch resolves with a response (any status): clearTimeout, return resp
FetchResponds ==
    /\ ExpandOnly
    /\ pc = "fetching" /\ Fetchable(urls[idx])
    /\ \E u \in ResponseUrls, st \in Statuses :
           /\ timers' = clearTimeout(timers, attempt)
           /\ CompleteUrl(Resp(u, st))

\* fetch rejects with a transport error
FetchFails ==
    /\ ExpandOnly
    /\ pc = "fetching"
    /\ \E err \in FetchErrors(urls[idx]) : HandleError(err, timers)

\* the timeout timer of the attempt in flight fires: controller.abort()
TimeoutFires ==
    /\ ExpandOnly
    /\ pc = "fetching" /\ attempt \in timers /\ Fetchable(urls[idx])
    /\ HandleError(AbortErr, timers \ {attempt})

\* the backoff sleep ends: the loop of robustFetch goes on, or falls through
BackoffElapses ==
    /\ ExpandOnly
    /\ pc = "backoff"
    /\ IF attempt + 1 <= Retries
       THEN /\ attempt' = attempt + 1
            /\ timers' = timers \cup {attempt + 1}
            /\ lastErr' = NoOutcome
            /\ pc' = "fetching"
            /\ UNCHANGED <<impl, urls, idx, results, waits, resolution, expandResp>>
       ELSE /\ UNCHANGED timers
            /\ CompleteUrl(Err("Error", ""))

\* res.json({ results })
ExpandFinish ==
    /\ ExpandOnly
    /\ pc = "loop" /\ urls # <<>> /\ idx > Len(urls)
    /\ expandResp' = [status |-> 200, results |-> results]
    /\ pc' = "done"
    /\ UNCHANGED <<impl, urls, idx, results, attempt, timers, waits, lastErr, resolution>>

NextExpand ==
    \/ ExpandReject
    \/ BeginUrl
    \/ FetchResponds
    \/ FetchFails
    \/ TimeoutFires
    \/ BackoffElapses
    \/ ExpandFinish

----------------------------------------------------------------------------
(* signPaapiRequest.  Digests are symbolic terms: Sha256 and Hmac are      *)
(* injective constructors, a joined string is the tuple of its parts.      *)

\* a digest that ignores what is hashed
Sha256OfNothing(x) == <<"sha256", <<>>>>

Sha256(x) == <<"sha256", x>>
\* an HMAC keyed by the message
HmacKeyedByMessage(key, msg) == <<"hmac", msg, key>>

Hmac(key, msg) == <<"hmac", key, msg>>
Hex(d) == <<"hex", d>>

IsDigit(c) == c \in DigitChars

\* now.toISOString().replace(/[:-]|\.\d{3}/g, '')
RECURSIVE StripIso(_)
StripIso(s) ==
    IF s = <<>> THEN <<>>
    ELSE IF Head(s) \in {":", "-"} THEN StripIso(Tail(s))
    ELSE IF /\ Head(s) = "."
            /\ Len(s) >= 4
            /\ IsDigit(s[2]) /\ IsDigit(s[3]) /\ IsDigit(s[4])
         THEN StripIso(SubSeq(s, 5, Len(s)))
    ELSE <<Head(s)>> \o StripIso(Tail(s))

\* members of an array that are not strings: undefined and null
UndefinedElement == "#undefined"
NullElement == "#null"

\* JSON.stringify of an array member: a string is quoted, undefined and null
\* are both written null
JsonElement(e) ==
    IF e \in {UndefinedElement, NullElement}
    THEN [t |-> "null", s |-> ""]
    ELSE [t |-> "string", s |-> e]

JsonArray(a) == [i \in 1..Len(a) |-> JsonElement(a[i])]

\* JSON.stringify(body): the members in the order the body was constructed
JSONstringify(body) ==
    << <<"ItemIds", JsonArray(body.ItemIds)>>, <<"Resources", body.Resources>>,
       <<"PartnerTag", body.PartnerTag>>, <<"PartnerType", body.PartnerType>>,
       <<"Marketplace", body.Marketplace>> >>

TargetGetItems == "com.amazon.paapi5.v1.ProductAdvertisingAPIv1.GetItems"

signPaapiRequest(accessKey, secretKey, region, host, path, body, now) ==
    LET service == "ProductAdvertisingAPI"
        method == "POST"
        amzDate == StripIso(now)
        dateStamp == SubSeq(amzDate, 1, 8)
        payload == JSONstringify(body)
        payloadHash == Hex(Sha256(payload))
        canonicalHeaders ==
            << <<"content-encoding", <<"amz-1.0">> >>,
               <<"content-type", <<"application/json; charset=utf-8">> >>,
               <<"host", host>>,
               <<"x-amz-date", amzDate>>,
               <<"x-amz-target", <<TargetGetItems>> >> >>
        signedHeaders ==
            <<"content-encoding", "content-type", "host", "x-amz-date", "x-amz-target">>
        canonicalRequest ==
            <<method, path, "", canonicalHeaders, signedHeaders, payloadHash>>
        algorithm == "AWS4-HMAC-SHA256"
        credentialScope == <<dateStamp, region, service, "aws4_request">>
        stringToSign ==
            <<algorithm, amzDate, credentialScope, Hex(Sha256(canonicalRequest))>>
        kDate == Hmac(<<"AWS4", secretKey>>, dateStamp)
        kRegion == Hmac(kDate, region)
        kService == Hmac(kRegion, service)
        kSigning == Hmac(kService, "aws4_request")
        signature == Hex(Hmac(kSigning, stringToSign))
        authorizationHeader ==
            [algorithm |-> algorithm,
             credential |-> <<accessKey, credentialScope>>,
             signedHeaders |-> signedHeaders,
             signature |-> signature]
    IN  [threw |-> FALSE,
         authorizationHeader |-> authorizationHeader,
         amzDate |-> amzDate,
         payload |-> payload]

----------------------------------------------------------------------------
(* The settings rows of section 'paapi' and the PA-API config routes *)

PaapiFields == {"accessKey", "secretKey", "partnerTag", "marketplace", "region", "host"}
SettingNames == PaapiFields

NoRow == <<"#norow">>
Undefined == <<"#undefined">>
NotAString == <<"#notastring">>

\* x || '' for a string or undefined
OrEmpty(x) == IF x = Undefined THEN <<>> ELSE x
\* a default that is never applied
OrStored(x, d) == x

\* x || d for a string
OrDefault(x, d) == IF x = <<>> THEN d ELSE x

EmptyStore == [n \in SettingNames |-> NoRow]

\* getPaapiConfig: null when the section has no row, else the six fields
getPaapiConfig(st) ==
    IF \A n \in SettingNames : st[n] = NoRow
    THEN [null |-> TRUE, accessKey |-> <<>>, secretKey |-> <<>>, partnerTag |-> <<>>,
          marketplace |-> <<>>, region |-> <<>>, host |-> <<>>]
    ELSE LET get(n) == IF st[n] = NoRow THEN <<>> ELSE st[n] IN
         [null |-> FALSE, accessKey |-> get("accessKey"), secretKey |-> get("secretKey"),
          partnerTag |-> get("partnerTag"), marketplace |-> get("marketplace"),
          region |-> get("region"), host |-> get("host")]

\* upsertPaapiConfig: one transaction writing the six rows, each value trimmed
upsertPaapiConfig(st, config) ==
    [n \in SettingNames |-> IF n \in PaapiFields THEN Trim(OrEmpty(config[n])) ELSE st[n]]

deletePaapiConfig(st) == [n \in SettingNames |-> NoRow]

upsertSetting(st, name, value) == [st EXCEPT ![name] = value]

deleteSetting(st, name) == [st EXCEPT ![name] = NoRow]

\* a host field that holds more than a host name: 'h/p'.  A string that is
\* taken apart as a URL is the sequence of its pieces, a piece of the path
\* starting with '/'
HostWithPath == <<"h", "/p">>
PathPieces == {"/p", "/paapi5/getitems"}

\* the pieces up to the first piece of the path
RECURSIVE Authority(_)
Authority(pieces) ==
    IF pieces = <<>> \/ Head(pieces) \in PathPieces THEN <<>>
    ELSE <<Head(pieces)>> \o Authority(Tail(pieces))

\* new URL(url).host of a URL that starts with https://
UrlHostOf(url) == Authority(Tail(url))

\* values a client may send in the body of PUT /api/config/paapi
KeyA == <<" ", "k", " ">>
KeyS == <<"s">>
TagT == <<"t">>
Blank == <<" ">>
BodyValues(n) ==
    CASE n = "accessKey" -> {NotAString, <<>>, KeyA}
      [] n = "secretKey" -> {<<>>, KeyS}
      [] n = "partnerTag" -> {Undefined, Blank, TagT}
      [] n = "marketplace" -> {<<>>, <<"m">>}
      [] n = "region" -> {<<>>, <<"r">>}
      [] OTHER -> {Undefined, <<"h">>, HostWithPath}
\* the request bodies: the three optional fields all left out or all given
PutBodies ==
    {b \in [accessKey : BodyValues("accessKey"), secretKey : BodyValues("secretKey"),
            partnerTag : BodyValues("partnerTag"), marketplace : BodyValues("marketplace"),
            region : BodyValues("region"), host : BodyValues("host")] :
        (b.marketplace = <<>>) = (b.region = <<>>) /\ (b.region = <<>>) = (b.host = Undefined)}
\* values a client may send to PUT /api/settings/paapi/:name
SettingValues(n) ==
    {Blank} \cup {<<" ">> \o Trim(OrEmpty(v)) : v \in BodyValues(n) \ {NotAString, Undefined, <<>>, Blank}}
\* the rows a client addresses one by one through /api/settings/paapi/:name
SettingTargets == {"secretKey", "partnerTag", "region"}

\* PUT /api/config/paapi
PutPaapiConfig ==
    /\ LookupOnly
    /\ \E body \in PutBodies :
        /\ settings' =
               IF body.accessKey = NotAString \/ body.secretKey = NotAString
               THEN settings
               ELSE upsertPaapiConfig(settings,
                        [accessKey |-> Trim(body.accessKey),
                         secretKey |-> Trim(body.secretKey),
                         partnerTag |-> Trim(OrEmpty(body.partnerTag)),
                         marketplace |-> Trim(OrEmpty(body.marketplace)),
                         region |-> Trim(OrEmpty(body.region)),
                         host |-> Trim(OrEmpty(body.host))])
        /\ settings' # settings
        /\ UNCHANGED <<lookup, outbound>>

\* DELETE /api/config/paapi
DeletePaapiConfig ==
    /\ LookupOnly
    /\ settings' = deletePaapiConfig(settings)
    /\ settings' # settings
    /\ UNCHANGED <<lookup, outbound>>

\* PUT /api/settings/paapi/:name
PutSetting ==
    /\ LookupOnly
    /\ \E n \in SettingTargets : \E value \in SettingValues(n) :
        /\ Trim(value) # <<>>
        /\ settings' = upsertSetting(settings, n, Trim(value))
        /\ settings' # settings
        /\ UNCHANGED <<lookup, outbound>>

\* DELETE /api/settings/paapi/:name
DeleteSetting ==
    /\ LookupOnly
    /\ \E n \in SettingTargets :
        /\ settings' = deleteSetting(settings, n)
        /\ settings' # settings
        /\ UNCHANGED <<lookup, outbound>>

----------------------------------------------------------------------------
(* The settings table with all its columns: upsertSetting and deleteSetting *)

MaxClock == 1
MaxRowId == 2

Sections == {"paapi", "ui"}
RowNamesOf == {"host", "theme"}
RowValues == {"v", "w"}
\* a value the NOT NULL column refuses
NullValue == "#null-value"

\* the table after the schema was created: no row, sqlite_sequence at 0
EmptyTable == [rows |-> {}, seq |-> 0, now |-> 0]

RowsOf(tbl, section, name) == {r \in tbl.rows : r.section = section /\ r.name = name}

\* INSERT OR REPLACE: the row in conflict is deleted and a new one inserted
upsertSettingReplacing(tbl, section, name, value, burns) ==
    IF value = NullValue THEN tbl ELSE
    [tbl EXCEPT !.rows = (@ \ RowsOf(tbl, section, name)) \cup
                            {[id |-> tbl.seq + 1, section |-> section, name |-> name,
                              value |-> value, created_at |-> tbl.now,
                              updated_at |-> tbl.now]},
                !.seq = @ + 1]

\* INSERT ... ON CONFLICT(section, name) DO UPDATE SET value, updated_at; the statement
\* throws on a null value and leaves the table as it was. Whether the update path uses up
\* an id of the sequence is left to the engine: burns
upsertSettingRow(tbl, section, name, value, burns) ==
    IF value = NullValue THEN tbl
    ELSE IF RowsOf(tbl, section, name) = {}
    THEN [tbl EXCEPT !.rows = @ \cup
                                {[id |-> tbl.seq + 1, section |-> section, name |-> name,
                                  value |-> value, created_at |-> tbl.now,
                                  updated_at |-> tbl.now]},
                     !.seq = @ + 1]
    ELSE [tbl EXCEPT !.rows = {IF r.section = section /\ r.name = name
                               THEN [r EXCEPT !.value = value, !.updated_at = tbl.now]
                               ELSE r : r \in @},
                     !.seq = IF burns THEN @ + 1 ELSE @]

\* DELETE FROM settings WHERE section=? AND name=?
deleteSettingRow(tbl, section, name) ==
    [tbl EXCEPT !.rows = @ \ RowsOf(tbl, section, name)]

UpsertSettingRowOf(section, name, value, burns) ==
    /\ upsertSettingRow(settingsTable, section, name, value, burns).seq <= MaxRowId
    /\ settingsTable' = upsertSettingRow(settingsTable, section, name, value, burns)
    /\ UNCHANGED <<impl, urls, idx, results, pc, attempt, timers, waits, lastErr, resolution,
                   expandResp, settings, lookup, outbound, signIn, signOut, SECRET_KEY,
                   cipher, secretRows, secretResp, extractIn, extractOut, store, ui>>

UpsertSettingRow ==
    \E section \in Sections, name \in RowNamesOf, value \in RowValues \cup {NullValue},
       burns \in BOOLEAN :
        UpsertSettingRowOf(section, name, value, burns)

DeleteSettingRowOf(section, name) ==
    /\ settingsTable' = deleteSettingRow(settingsTable, section, name)
    /\ UNCHANGED <<impl, urls, idx, results, pc, attempt, timers, waits, lastErr, resolution,
                   expandResp, settings, lookup, outbound, signIn, signOut, SECRET_KEY,
                   cipher, secretRows, secretResp, extractIn, extractOut, store, ui>>

DeleteSettingRow ==
    \E section \in Sections, name \in RowNamesOf : DeleteSettingRowOf(section, name)

\* time passes between two calls
ClockTick ==
    /\ settingsTable.now < MaxClock
    /\ settingsTable' = [settingsTable EXCEPT !.now = @ + 1]
    /\ UNCHANGED <<impl, urls, idx, results, pc, attempt, timers, waits, lastErr, resolution,
                   expandResp, settings, lookup, outbound, signIn, signOut, SECRET_KEY,
                   cipher, secretRows, secretResp, extractIn, extractOut, store, ui>>

NextTable ==
    \/ UpsertSettingRow
    \/ DeleteSettingRow
    \/ ClockTick

----------------------------------------------------------------------------
(* POST /api/paapi/get-items *)

IsoTimes ==
    {<<"2","0","2","4","-","0","1","-","1","5","T","1","0",":","3","0",":","0","0",".","0","0","0","Z">>,
     <<"2","0","2","5","-","1","2","-","3","1","T","2","3",":","5","9",":","5","9",".","9","9","9","Z">>}

\* req.body.asins: not a non-empty array, or a list of product codes
AsinLists == {<<>>, <<"B0ABCDEFGH">>}

Resources ==
    <<"CustomerReviews.Count", "CustomerReviews.StarRating", "ItemInfo.ByLineInfo",
      "ItemInfo.ContentInfo", "ItemInfo.ContentRating", "ItemInfo.Classifications",
      "ItemInfo.ExternalIds", "ItemInfo.Features", "ItemInfo.ManufactureInfo",
      "ItemInfo.ProductInfo", "ItemInfo.TechnicalInfo", "ItemInfo.Title",
      "ItemInfo.TradeInInfo">>

DefaultMarketplace == <<"www.amazon.com">>
DefaultRegion == <<"us-east-1">>
DefaultHost == <<"webservices.amazon.com">>
GetItemsPath == <<"/paapi5/getitems">>

NullCfg ==
    [null |-> TRUE, accessKey |-> <<>>, secretKey |-> <<>>, partnerTag |-> <<>>,
     marketplace |-> <<>>, region |-> <<>>, host |-> <<>>]

\* what the remote API answered: its status and its body
NoRemote == [status |-> 0, body |-> <<>>]

\* status, error, errorData, statusCode, items: the answer of the handler,
\* error being a message of its own and errorData the remote data it passes on;
\* cfg: the configuration the handler read (kept for the whole request);
\* remote: the answer of the remote API to the outbound call
LookupIdle ==
    [pc |-> "idle", status |-> 0, error |-> "", errorData |-> <<>>, statusCode |-> 0,
     items |-> <<>>, cfg |-> NullCfg, remote |-> NoRemote]
LookupDone(st, err, items, cfg) ==
    [pc |-> "done", status |-> st, error |-> err, errorData |-> <<>>, statusCode |-> 0,
     items |-> items, cfg |-> cfg, remote |-> NoRemote]

\* a gate that forgets the partner tag
ConfigGateNoTag(cfg) ==
    IF cfg.null \/ cfg.accessKey = <<>> \/ cfg.secretKey = <<>>
    THEN "PA API not configured"
    ELSE ""

\* a gate that forgets the secret key
ConfigGateNoSecret(cfg) ==
    IF cfg.null \/ cfg.accessKey = <<>>
    THEN "PA API not configured"
    ELSE IF Trim(cfg.partnerTag) = <<>> THEN "partnerTag not configured"
    ELSE ""

\* the configuration gate of the handler: "" when the request may go on
ConfigGate(cfg) ==
    IF cfg.null \/ cfg.accessKey = <<>> \/ cfg.secretKey = <<>>
    THEN "PA API not configured"
    ELSE IF Trim(cfg.partnerTag) = <<>> THEN "partnerTag not configured"
    ELSE ""

\* the outbound call built from the stored configuration
OutboundCall(cfg, asins, now) ==
    LET partnerTag == Trim(cfg.partnerTag)
        marketplace == OrDefault(cfg.marketplace, DefaultMarketplace)
        region == OrDefault(cfg.region, DefaultRegion)
        host == OrDefault(cfg.host, DefaultHost)
        body == [ItemIds |-> asins, Resources |-> Resources, PartnerTag |-> partnerTag,
                 PartnerType |-> "Associates", Marketplace |-> marketplace]
        signed == signPaapiRequest(cfg.accessKey, cfg.secretKey, region, host,
                                   GetItemsPath, body, now)
    IN  [url |-> <<"https://">> \o host \o GetItemsPath,
         method |-> "POST",
         headers |-> [contentEncoding |-> <<"amz-1.0">>,
                      contentType |-> <<"application/json; charset=utf-8">>,
                      host |-> host,
                      xAmzDate |-> signed.amzDate,
                      xAmzTarget |-> <<TargetGetItems>>,
                      Authorization |-> signed.authorizationHeader],
         body |-> signed.payload,
         signedWith |-> [accessKey |-> cfg.accessKey, secretKey |-> cfg.secretKey,
                         region |-> region]]

\* the credential fields a client may put in the request body next to asins:
\* none, or the six fields the executor form sends
NoBodyCredentials ==
    [null |-> TRUE, accessKey |-> <<>>, secretKey |-> <<>>, partnerTag |-> <<>>,
     marketplace |-> <<>>, region |-> <<>>, host |-> <<>>]
FormCredentials ==
    [null |-> FALSE, accessKey |-> <<"f","k">>, secretKey |-> <<"f","s">>,
     partnerTag |-> <<"f","t">>, marketplace |-> <<"f","m">>, region |-> <<"f","r">>,
     host |-> <<"f","h">>]
RequestCredentials == {NoBodyCredentials, FormCredentials}

\* a handler that prefers the credentials of the request body
BodyConfigFirst(st, bodyCredentials) ==
    IF bodyCredentials.null THEN getPaapiConfig(st) ELSE bodyCredentials

\* const { asins } = req.body || {}; const cfg = await getPaapiConfigAsync():
\* of the request body only asins is read
HandlerConfig(st, bodyCredentials) == getPaapiConfig(st)

\* a request arrives: validation, the gate, then the signed call is issued;
\* the call is kept with the request it was issued for
LookupStart ==
    /\ LookupOnly
    /\ lookup.pc = "idle"
    /\ \E asins \in AsinLists, now \in IsoTimes, bodyCredentials \in RequestCredentials :
         LET cfg == HandlerConfig(settings, bodyCredentials) IN
         IF asins = <<>>
         THEN /\ lookup' = LookupDone(400, "asins must be a non-empty array", <<>>, NullCfg)
              /\ UNCHANGED <<settings, outbound>>
         ELSE IF ConfigGate(cfg) # ""
         THEN /\ lookup' = LookupDone(400, ConfigGate(cfg), <<>>, cfg)
              /\ UNCHANGED <<settings, outbound>>
         ELSE /\ lookup' = [LookupIdle EXCEPT !.pc = "awaiting", !.cfg = cfg]
              /\ outbound' = Append(outbound,
                      OutboundCall(cfg, asins, now) @@
                      [request |-> [asins |-> asins, now |-> now,
                                    bodyCredentials |-> bodyCredentials,
                                    stored |-> getPaapiConfig(settings)]])
              /\ UNCHANGED settings

\* bodies the remote API may send: JSON objects with or without the two item
\* lists, the JSON value null, and text that is no JSON
JsonObject(itemsResult, items) == <<"object", itemsResult, items>>
JsonNullBody == <<"null">>
Unparseable == <<"not json">>
EmptyObject == JsonObject("undefined", "undefined")
NestedItems == <<"nestedItem">>
TopItems == <<"topItem">>
RemoteBodies ==
    {JsonObject("withItems", "undefined"), JsonObject("undefined", "list"),
     JsonObject("withItems", "list"), JsonObject("withoutItems", "list"),
     EmptyObject, JsonNullBody, Unparseable}
RemoteStatuses == {200, 429}

\* resp.ok
RespOk(st) == st >= 200 /\ st <= 299

\* await resp.json().catch(() => ({}))
ParsedOrEmpty(body) == IF body = Unparseable THEN EmptyObject ELSE body

\* (data.ItemsResult && data.ItemsResult.Items) || data.Items || []
ItemsOf(data) ==
    IF data[2] = "withItems" THEN NestedItems
    ELSE IF data[3] = "list" THEN TopItems
    ELSE <<>>

\* the answer of the handler to a response of the remote API; reading a
\* member of null throws, and the catch of the handler answers 500
RemoteAnswer(st, body, cfg) ==
    LET data == ParsedOrEmpty(body)
        remote == [status |-> st, body |-> body]
    IN  IF ~RespOk(st)
        THEN [pc |-> "done", status |-> st,
              error |-> IF data = JsonNullBody THEN "PA API error" ELSE "",
              errorData |-> IF data = JsonNullBody THEN <<>> ELSE data,
              statusCode |-> st, items |-> <<>>, cfg |-> cfg, remote |-> remote]
        ELSE IF data = JsonNullBody
        THEN [LookupDone(500, "PA API request failed", <<>>, cfg) EXCEPT !.remote = remote]
        ELSE [LookupDone(200, "", ItemsOf(data), cfg) EXCEPT !.remote = remote]

\* the remote call returns a response
LookupRemoteResponds ==
    /\ LookupOnly
    /\ lookup.pc = "awaiting"
    /\ \E st \in RemoteStatuses, body \in RemoteBodies :
         lookup' = RemoteAnswer(st, body, lookup.cfg)
    /\ UNCHANGED <<settings, outbound>>

\* the remote call rejects: the catch of the handler
LookupRemoteFails ==
    /\ LookupOnly
    /\ lookup.pc = "awaiting"
    /\ lookup' = LookupDone(500, "PA API request failed", <<>>, lookup.cfg)
    /\ UNCHANGED <<settings, outbound>>

\* the next lookup request
LookupNext ==
    /\ LookupOnly
    /\ lookup.pc = "done"
    /\ lookup' = LookupIdle
    /\ outbound' = <<>>
    /\ UNCHANGED settings

NextLookup ==
    \/ PutPaapiConfig
    \/ DeletePaapiConfig
    \/ PutSetting
    \/ DeleteSetting
    \/ LookupStart
    \/ LookupRemoteResponds
    \/ LookupRemoteFails
    \/ LookupNext

----------------------------------------------------------------------------
(* signPaapiRequest called on its own, beside the handler that calls it *)

NoSign == [called |-> FALSE]

SampleBody ==
    [ItemIds |-> <<"B0ABCDEFGH">>, Resources |-> Resources, PartnerTag |-> TagT,
     PartnerType |-> "Associates", Marketplace |-> DefaultMarketplace]

SignInputs == [accessKey : {<<>>, <<"k">>}, secretKey : {<<>>, KeyS}, now : IsoTimes]

\* the configurations one PUT /api/config/paapi leaves in an empty store
StoredConfigs ==
    {[n \in SettingNames |-> NoRow]} \cup
    {upsertPaapiConfig([n \in SettingNames |-> NoRow], b) :
         b \in {c \in PutBodies : c.accessKey # NotAString}}

\* signPaapiRequest applied to the arguments drawn
SignCall ==
    /\ ~signOut.called
    /\ signOut' = [called |-> TRUE,
                   result |-> signPaapiRequest(signIn.accessKey, signIn.secretKey,
                                  DefaultRegion, DefaultHost, GetItemsPath, SampleBody,
                                  signIn.now)]
    /\ UNCHANGED <<settingsTable, impl, urls, idx, results, pc, attempt, timers, waits,
                   lastErr, resolution,
                   expandResp, settings, lookup, outbound, signIn, SECRET_KEY, cipher,
                   secretRows, secretResp, extractIn, extractOut,
                   store, ui>>

NextSign ==
    \/ SignCall
    \/ LookupStart
    \/ LookupRemoteResponds
    \/ LookupRemoteFails
    \/ LookupNext

\* two calls of signPaapiRequest side by side: signIn holds the arguments of
\* the first and of the second call, signOut what the calls made so far returned
OtherRegion == <<"eu-west-1">>
OtherSecret == <<"s","2">>
SignBodies ==
    {[SampleBody EXCEPT !.ItemIds = ids] :
        ids \in {<<"B0ABCDEFGH">>, <<"B0ABCDEFGJ">>, <<NullElement>>, <<UndefinedElement>>}}
SignArguments ==
    [accessKey : {<<"k">>}, secretKey : {KeyS, OtherSecret},
     region : {DefaultRegion, OtherRegion}, host : {DefaultHost}, path : {GetItemsPath},
     body : SignBodies, now : IsoTimes]

Sign(a) ==
    signPaapiRequest(a.accessKey, a.secretKey, a.region, a.host, a.path, a.body, a.now)

SignFirst ==
    /\ signOut = <<>>
    /\ signOut' = <<Sign(signIn.first)>>
    /\ UNCHANGED <<settingsTable, impl, urls, idx, results, pc, attempt, timers, waits,
                   lastErr, resolution,
                   expandResp, settings, lookup, outbound, signIn, SECRET_KEY, cipher,
                   secretRows, secretResp, extractIn, extractOut,
                   store, ui>>

SignSecond ==
    /\ Len(signOut) = 1
    /\ signOut' = Append(signOut, Sign(signIn.second))
    /\ UNCHANGED <<settingsTable, impl, urls, idx, results, pc, attempt, timers, waits,
                   lastErr, resolution,
                   expandResp, settings, lookup, outbound, signIn, SECRET_KEY, cipher,
                   secretRows, secretResp, extractIn, extractOut,
                   store, ui>>

NextSignTwice ==
    \/ SignFirst
    \/ SignSecond

----------------------------------------------------------------------------
(* The secret cipher: getAesKey, encryptSecret, decryptSecret.  A string is *)
(* a sequence of UTF-16 code units, a Buffer a sequence of bytes 0..255, a  *)
(* base64 text a sequence of sextets 0..63 with the pad and the delimiter.  *)

\* the code units plaintexts and passphrases are made of: 'a', 'b', U+00E9,
\* the two halves of U+1F600, and the replacement character U+FFFD
UnitA == "a"
UnitB == "b"
UnitEAcute == "e9"
UnitHigh == "d83d"
UnitLow == "de00"
UnitReplacement == "fffd"

\* Buffer.from(string, 'utf8') / cipher.update(string, 'utf8'): a surrogate
\* pair gives four bytes, a surrogate on its own the bytes of U+FFFD
RECURSIVE Utf8Encode(_)
Utf8Encode(str) ==
    IF str = <<>> THEN <<>>
    ELSE LET u == Head(str) IN
         IF u = UnitHigh /\ Len(str) >= 2 /\ str[2] = UnitLow
         THEN <<240, 159, 152, 128>> \o Utf8Encode(SubSeq(str, 3, Len(str)))
         ELSE (CASE u = UnitA -> <<97>>
                 [] u = UnitB -> <<98>>
                 [] u = UnitEAcute -> <<195, 169>>
                 [] OTHER -> <<239, 191, 189>>) \o Utf8Encode(Tail(str))

\* buffer.toString('utf8')
RECURSIVE Utf8Decode(_)
Utf8Decode(bytes) ==
    IF bytes = <<>> THEN <<>>
    ELSE IF bytes[1] < 128
    THEN <<IF bytes[1] = 97 THEN UnitA ELSE IF bytes[1] = 98 THEN UnitB ELSE UnitReplacement>>
             \o Utf8Decode(Tail(bytes))
    ELSE IF Len(bytes) >= 2 /\ SubSeq(bytes, 1, 2) = <<195, 169>>
    THEN <<UnitEAcute>> \o Utf8Decode(SubSeq(bytes, 3, Len(bytes)))
    ELSE IF Len(bytes) >= 3 /\ SubSeq(bytes, 1, 3) = <<239, 191, 189>>
    THEN <<UnitReplacement>> \o Utf8Decode(SubSeq(bytes, 4, Len(bytes)))
    ELSE IF Len(bytes) >= 4 /\ SubSeq(bytes, 1, 4) = <<240, 159, 152, 128>>
    THEN <<UnitHigh, UnitLow>> \o Utf8Decode(SubSeq(bytes, 5, Len(bytes)))
    ELSE <<UnitReplacement>> \o Utf8Decode(Tail(bytes))

\* '=' and ':' beside the 64 sextets of the base64 alphabet
PadChar == 64
Delimiter == 65

\* buffer.toString('base64')
RECURSIVE Base64Encode(_)
Base64Encode(bytes) ==
    IF bytes = <<>> THEN <<>>
    ELSE IF Len(bytes) = 1
    THEN <<bytes[1] \div 4, (bytes[1] % 4) * 16, PadChar, PadChar>>
    ELSE IF Len(bytes) = 2
    THEN <<bytes[1] \div 4, (bytes[1] % 4) * 16 + bytes[2] \div 16,
           (bytes[2] % 16) * 4, PadChar>>
    ELSE <<bytes[1] \div 4, (bytes[1] % 4) * 16 + bytes[2] \div 16,
           (bytes[2] % 16) * 4 + bytes[3] \div 64, bytes[3] % 64>>
             \o Base64Encode(SubSeq(bytes, 4, Len(bytes)))

\* the sextets before the first pad
RECURSIVE BeforePad(_)
BeforePad(text) ==
    IF text = <<>> \/ Head(text) = PadChar THEN <<>>
    ELSE <<Head(text)>> \o BeforePad(Tail(text))

\* the bytes whole groups of sextets give; the bits left over in the last
\* sextet of a short group are dropped unread
RECURSIVE SextetsToBytes(_)
SextetsToBytes(x) ==
    IF Len(x) <= 1 THEN <<>>
    ELSE IF Len(x) = 2 THEN <<x[1] * 4 + x[2] \div 16>>
    ELSE IF Len(x) = 3 THEN <<x[1] * 4 + x[2] \div 16, (x[2] % 16) * 16 + x[3] \div 4>>
    ELSE <<x[1] * 4 + x[2] \div 16, (x[2] % 16) * 16 + x[3] \div 4, (x[3] % 4) * 64 + x[4]>>
             \o SextetsToBytes(SubSeq(x, 5, Len(x)))

\* Buffer.from(text, 'base64'): never fails on a string
Base64Decode(text) == SextetsToBytes(BeforePad(text))

\* serialized.split(':')
RECURSIVE Split(_)
Split(text) ==
    IF \A i \in 1..Len(text) : text[i] # Delimiter THEN <<text>>
    ELSE LET i == CHOOSE k \in 1..Len(text) :
                      text[k] = Delimiter /\ \A j \in 1..(k - 1) : text[j] # Delimiter
         IN  <<SubSeq(text, 1, i - 1)>> \o Split(SubSeq(text, i + 1, Len(text)))

KeyLength == 32
IvLength == 12
TagLength == 16

\* process.env.SECRET_ENC_KEY || null
NoPassphrase == <<>>

\* a key made of the whole passphrase
getAesKeyWhole(passphrase) ==
    IF passphrase = <<>> \/ Len(passphrase) < 32
    THEN [null |-> TRUE, bytes |-> <<>>]
    ELSE [null |-> FALSE, bytes |-> Utf8Encode(passphrase)]

\* getAesKey: null (here the empty buffer with the flag) or the bytes of the
\* first 32 code units
getAesKey(passphrase) ==
    IF passphrase = NoPassphrase \/ Len(passphrase) < KeyLength
    THEN [null |-> TRUE, bytes |-> <<>>]
    ELSE [null |-> FALSE, bytes |-> Utf8Encode(SubSeq(passphrase, 1, KeyLength))]

RECURSIVE SumBytes(_)
SumBytes(b) == IF b = <<>> THEN 0 ELSE Head(b) + SumBytes(Tail(b))

RECURSIVE WeightedSum(_, _)
WeightedSum(b, w) == IF b = <<>> THEN 0 ELSE w * Head(b) + WeightedSum(Tail(b), w + 1)

\* AES-256 in counter mode, idealised: a byte-wise transform under a
\* keystream that depends on the key, the iv and the position
Keystream(key, iv, i) == (SumBytes(key) + SumBytes(iv) + 7 * i) % 256
CtrEncrypt(key, iv, bytes) ==
    [i \in 1..Len(bytes) |-> (bytes[i] + Keystream(key, iv, i)) % 256]
CtrDecrypt(key, iv, bytes) ==
    [i \in 1..Len(bytes) |-> (bytes[i] + 256 - Keystream(key, iv, i)) % 256]

\* the GCM authentication tag, idealised: 16 bytes that differ whenever
\* the key, the iv or the ciphertext differ in one place or in two
\* neighbouring places, or the ciphertexts differ in length
AuthTag(key, iv, enc) ==
    LET all == key \o iv \o enc
        s == SumBytes(all)
        h == WeightedSum(all, 1)
    IN  <<s \div 256, s % 256, h \div 65536, (h \div 256) % 256, h % 256, Len(enc)>>
            \o [i \in 1..(TagLength - 6) |-> (s + h + i) % 256]

Thrown == [threw |-> TRUE, val |-> <<>>]
Returned(v) == [threw |-> FALSE, val |-> v]

\* encryptSecret, iv being the 12 bytes crypto.randomBytes drew
encryptSecret(passphrase, plaintext, iv) ==
    LET key == getAesKey(passphrase) IN
    IF key.null THEN Thrown
    ELSE IF Len(key.bytes) # KeyLength THEN Thrown
    ELSE LET enc == CtrEncrypt(key.bytes, iv, Utf8Encode(plaintext))
             tag == AuthTag(key.bytes, iv, enc)
         IN  Returned(Base64Encode(iv) \o <<Delimiter>> \o Base64Encode(enc)
                          \o <<Delimiter>> \o Base64Encode(tag))

\* decryptSecret
decryptSecret(passphrase, serialized) ==
    LET key == getAesKey(passphrase)
        parts == Split(serialized)
    IN  IF key.null THEN Thrown
        ELSE IF Len(parts) < 3 THEN Thrown
        ELSE LET iv == Base64Decode(parts[1])
                 enc == Base64Decode(parts[2])
                 tag == Base64Decode(parts[3])
             IN  IF Len(key.bytes) # KeyLength \/ iv = <<>> THEN Thrown
                 ELSE IF Len(tag) # TagLength THEN Thrown
                 ELSE IF tag # AuthTag(key.bytes, iv, enc) THEN Thrown
                 ELSE Returned(Utf8Decode(CtrDecrypt(key.bytes, iv, enc)))

----------------------------------------------------------------------------
(* encryptSecret and decryptSecret applied to an envelope that may have     *)
(* been altered, under a passphrase that may have been replaced, in between *)

RepeatUnit(u, n) == [i \in 1..n |-> u]
Pass31 == RepeatUnit(UnitA, 31)
Pass32 == RepeatUnit(UnitA, 32)
Pass32Other == RepeatUnit(UnitA, 31) \o <<UnitB>>
Pass33 == Pass32 \o <<UnitB>>
Pass32Accent == RepeatUnit(UnitA, 31) \o <<UnitEAcute>>
Passphrases == {NoPassphrase, Pass31, Pass32, Pass32Other, Pass33, Pass32Accent}

Plaintexts ==
    {<<UnitA>>, <<UnitA, UnitB>>, <<UnitA, UnitEAcute>>, <<UnitHigh, UnitLow>>, <<UnitHigh>>}

\* what crypto.randomBytes(12) may draw
Ivs == {[i \in 1..IvLength |-> 17 * i], [i \in 1..IvLength |-> 255 - i]}

\* the sextet at position pos of segment seg replaced by another sextet
FlipSextet(text, seg, pos, delta) ==
    LET parts == Split(text)
        flipped == [parts[seg] EXCEPT ![pos] = (@ + delta) % 64]
        now == [parts EXCEPT ![seg] = flipped]
    IN  now[1] \o <<Delimiter>> \o now[2] \o <<Delimiter>> \o now[3]

\* the last segment and its delimiter cut off
DropSegment(text) ==
    LET parts == Split(text) IN parts[1] \o <<Delimiter>> \o parts[2]

\* a fourth segment added
AppendSegment(text) == text \o <<Delimiter, 0, 0, 0, 0>>

FlipDeltas == {1, 32}

NoAlteration == [kind |-> "none", seg |-> 0, pos |-> 0]

\* a row of the secrets table: env is value_encrypted; plain, key and how
\* remember what was encrypted, under which passphrase, and what happened to
\* the stored text since
SecretNames == <<"one", "two">>
NoSecretRow == [env |-> <<>>, plain |-> <<>>, key |-> <<>>, how |-> "absent"]
NoSecrets == [n \in Range(SecretNames) |-> NoSecretRow]
NoSecretResp == [kind |-> "none", status |-> 0, withValues |-> FALSE, body |-> <<>>]

CipherIdle == [pc |-> "idle"]
CipherStart(p, iv) ==
    [pc |-> "start", plaintext |-> p, iv |-> iv, encKey |-> NoPassphrase, envelope |-> <<>>,
     sent |-> <<>>, how |-> NoAlteration, out |-> Thrown]

InitCipher ==
    /\ impl = "robust" /\ urls = <<>> /\ idx = 1 /\ results = <<>> /\ pc = "done"
    /\ attempt = 0 /\ timers = {} /\ waits = <<>> /\ lastErr = NoOutcome
    /\ resolution = NoResolution
    /\ expandResp = NoResp
    /\ settings = EmptyStore
    /\ lookup = LookupIdle
    /\ outbound = <<>>
    /\ signIn = <<>>
    /\ signOut = NoSign
    /\ SECRET_KEY \in Passphrases
    /\ cipher \in {CipherStart(p, iv) : p \in Plaintexts, iv \in Ivs}
    /\ secretRows = NoSecrets
    /\ secretResp = NoSecretResp
    /\ extractIn = <<>>
    /\ extractOut = NotExtracted
    /\ store = InitialStore
    /\ ui = UiIdle
    /\ settingsTable = EmptyTable

\* encryptSecret(plaintext)
Encrypt ==
    /\ SecretsOnly
    /\ cipher.pc = "start"
    /\ LET r == encryptSecret(SECRET_KEY, cipher.plaintext, cipher.iv) IN
       cipher' = IF r.threw
                 THEN [cipher EXCEPT !.pc = "failed", !.encKey = SECRET_KEY]
                 ELSE [cipher EXCEPT !.pc = "encrypted", !.encKey = SECRET_KEY,
                                     !.envelope = r.val, !.sent = r.val]
    /\ UNCHANGED <<SECRET_KEY, secretRows, secretResp>>

\* the stored envelope is altered: one sextet of one segment replaced
AlterFlip ==
    /\ SecretsOnly
    /\ cipher.pc = "encrypted" /\ cipher.how = NoAlteration
    /\ \E seg \in 1..3 :
         \E pos \in 1..Len(BeforePad(Split(cipher.envelope)[seg])), delta \in FlipDeltas :
           cipher' = [cipher EXCEPT !.sent = FlipSextet(cipher.envelope, seg, pos, delta),
                                    !.how = [kind |-> "flip", seg |-> seg, pos |-> pos]]
    /\ UNCHANGED <<SECRET_KEY, secretRows, secretResp>>

\* the stored envelope is altered: a segment cut off or added
AlterSegments ==
    /\ SecretsOnly
    /\ cipher.pc = "encrypted" /\ cipher.how = NoAlteration
    /\ \/ cipher' = [cipher EXCEPT !.sent = DropSegment(cipher.envelope),
                                   !.how = [kind |-> "drop", seg |-> 3, pos |-> 0]]
       \/ cipher' = [cipher EXCEPT !.sent = AppendSegment(cipher.envelope),
                                   !.how = [kind |-> "append", seg |-> 4, pos |-> 0]]
    /\ UNCHANGED <<SECRET_KEY, secretRows, secretResp>>

\* the process is restarted with another SECRET_ENC_KEY
Rekey ==
    /\ SecretsOnly
    /\ cipher.pc = "encrypted"
    /\ cipher.encKey = SECRET_KEY
    /\ \E p \in Passphrases \ {SECRET_KEY} : SECRET_KEY' = p
    /\ UNCHANGED <<cipher, secretRows, secretResp>>

\* decryptSecret(serialized)
Decrypt ==
    /\ SecretsOnly
    /\ cipher.pc = "encrypted"
    /\ cipher' = [cipher EXCEPT !.pc = "decrypted",
                                !.out = decryptSecret(SECRET_KEY, cipher.sent)]
    /\ UNCHANGED <<SECRET_KEY, secretRows, secretResp>>

NextCipher ==
    \/ Encrypt
    \/ AlterFlip
    \/ AlterSegments
    \/ Rekey
    \/ Decrypt

----------------------------------------------------------------------------
(* The secrets routes *)

SecretPassphrases == {NoPassphrase, Pass32, Pass32Other}
\* req.body.value: nothing, no string, the empty string, blanks only, text
\* with a blank before it, half of a surrogate pair
SecretValues == {Undefined, NotAString, <<>>, <<" ">>, <<" ", UnitB>>, <<UnitHigh>>}
\* the initialization vector randomBytes hands to a PUT
SecretIvs == {CHOOSE iv \in Ivs : TRUE}

\* if (!value || typeof value !== 'string') return res.status(400)
ValueRejected(value) == value \in {Undefined, NotAString, <<>>}

\* a decryption failure passed on to the caller
DecryptOrThrow(passphrase, serialized) ==
    LET r == decryptSecret(passphrase, serialized) IN
    [threw |-> r.threw, val |-> JsString(r.val)]

\* try { base.value = decryptSecret(r.value_encrypted) } catch { base.value = null }
DecryptOrNull(passphrase, serialized) ==
    LET r == decryptSecret(passphrase, serialized) IN
    [threw |-> FALSE, val |-> IF r.threw THEN JsNull ELSE JsString(r.val)]

\* the names of the rows, in the order of ORDER BY name
RECURSIVE RowNames(_, _)
RowNames(rows, names) ==
    IF names = <<>> THEN <<>>
    ELSE (IF rows[Head(names)] = NoSecretRow THEN <<>> ELSE <<Head(names)>>)
             \o RowNames(rows, Tail(names))

\* rows.map(...) of GET /api/secrets
ListAnswer(passphrase, rows, includeValues) ==
    LET names == RowNames(rows, SecretNames)
        vals == [i \in 1..Len(names) |-> DecryptOrNull(passphrase, rows[names[i]].env)]
    IN  IF includeValues /\ \E i \in 1..Len(names) : vals[i].threw
        THEN [kind |-> "list", status |-> 500, withValues |-> includeValues, body |-> <<>>]
        ELSE [kind |-> "list", status |-> 200, withValues |-> includeValues,
              body |-> [i \in 1..Len(names) |->
                           [name |-> names[i],
                            value |-> IF includeValues THEN vals[i].val ELSE JsNull]]]

\* the answer of GET /api/secrets/:name
GetAnswer(passphrase, rows, name, includeValue) ==
    IF rows[name] = NoSecretRow
    THEN [kind |-> "get", status |-> 404, withValues |-> includeValue, body |-> <<>>]
    ELSE LET v == DecryptOrNull(passphrase, rows[name].env) IN
         IF includeValue /\ v.threw
         THEN [kind |-> "get", status |-> 500, withValues |-> includeValue, body |-> <<>>]
         ELSE [kind |-> "get", status |-> 200, withValues |-> includeValue,
               body |-> <<[name |-> name,
                           value |-> IF includeValue THEN v.val ELSE JsNull]>>]

InitSecrets ==
    /\ impl = "robust" /\ urls = <<>> /\ idx = 1 /\ results = <<>> /\ pc = "done"
    /\ attempt = 0 /\ timers = {} /\ waits = <<>> /\ lastErr = NoOutcome
    /\ resolution = NoResolution
    /\ expandResp = NoResp
    /\ settings = EmptyStore
    /\ lookup = LookupIdle
    /\ outbound = <<>>
    /\ signIn = <<>>
    /\ signOut = NoSign
    /\ SECRET_KEY \in SecretPassphrases
    /\ cipher = CipherIdle
    /\ secretRows = NoSecrets
    /\ secretResp = NoSecretResp
    /\ extractIn = <<>>
    /\ extractOut = NotExtracted
    /\ store = InitialStore
    /\ ui = UiIdle
    /\ settingsTable = EmptyTable

\* PUT /api/secrets/:name
PutSecret ==
    /\ SecretsOnly
    /\ \E name \in Range(SecretNames), value \in SecretValues, iv \in SecretIvs :
         IF ValueRejected(value)
         THEN /\ secretResp' = [kind |-> "put", status |-> 400, withValues |-> FALSE,
                                body |-> <<>>]
              /\ UNCHANGED secretRows
         ELSE LET enc == encryptSecret(SECRET_KEY, Trim(value), iv) IN
              IF enc.threw
              THEN /\ secretResp' = [kind |-> "put", status |-> 500, withValues |-> FALSE,
                                     body |-> <<>>]
                   /\ UNCHANGED secretRows
              ELSE /\ secretRows' = [secretRows EXCEPT ![name] =
                                        [env |-> enc.val, plain |-> Trim(value),
                                         key |-> SECRET_KEY, how |-> "none"]]
                   /\ secretResp' = [kind |-> "put", status |-> 200, withValues |-> FALSE,
                                     body |-> <<>>]
    /\ UNCHANGED <<SECRET_KEY, cipher>>

\* DELETE /api/secrets/:name
DeleteSecret ==
    /\ SecretsOnly
    /\ \E name \in Range(SecretNames) :
         /\ secretRows[name] # NoSecretRow
         /\ secretRows' = [secretRows EXCEPT ![name] = NoSecretRow]
    /\ secretResp' = [kind |-> "delete", status |-> 204, withValues |-> FALSE, body |-> <<>>]
    /\ UNCHANGED <<SECRET_KEY, cipher>>

\* a stored value_encrypted is changed outside the routes: a character of
\* the tag replaced, or the tag segment lost
RowAltered ==
    /\ SecretsOnly
    /\ \E name \in Range(SecretNames) :
         /\ secretRows[name].how = "none"
         /\ \/ secretRows' = [secretRows EXCEPT
                                 ![name].env = FlipSextet(@, 3, 1, 32), ![name].how = "flip"]
            \/ secretRows' = [secretRows EXCEPT
                                 ![name].env = DropSegment(@), ![name].how = "drop"]
    /\ secretResp' = NoSecretResp
    /\ UNCHANGED <<SECRET_KEY, cipher>>

\* the process is restarted with another SECRET_ENC_KEY
Restart ==
    /\ SecretsOnly
    /\ \E p \in SecretPassphrases \ {SECRET_KEY} : SECRET_KEY' = p
    /\ secretResp' = NoSecretResp
    /\ UNCHANGED <<cipher, secretRows>>

\* GET /api/secrets
ListSecrets ==
    /\ SecretsOnly
    /\ \E includeValues \in BOOLEAN :
         secretResp' = ListAnswer(SECRET_KEY, secretRows, includeValues)
    /\ UNCHANGED <<SECRET_KEY, cipher, secretRows>>

\* GET /api/secrets/:name
GetSecret ==
    /\ SecretsOnly
    /\ \E name \in Range(SecretNames), includeValue \in BOOLEAN :
         secretResp' = GetAnswer(SECRET_KEY, secretRows, name, includeValue)
    /\ UNCHANGED <<SECRET_KEY, cipher, secretRows>>

NextSecrets ==
    \/ PutSecret
    \/ DeleteSecret
    \/ RowAltered
    \/ Restart
    \/ ListSecrets
    \/ GetSecret

----------------------------------------------------------------------------
(* The operations of the web client on its store *)

\* data.results of an answer: left out, or the entries of the URLs
AnswerResults == {<<>>, <<"r1">>, <<"r1", "r2">>}
\* the messages setError is called with after a request
AnswerErrors == {"Server error while expanding URLs", "urls must be a non-empty array",
                 "Failed to fetch"}

SetPaapiFieldOf(field, value) ==
    /\ store' = setPaapiField(store, field, value)
    /\ UNCHANGED <<settingsTable, impl, urls, idx, results, pc, attempt, timers, waits,
                   lastErr, resolution,
                   expandResp, settings, lookup, outbound, signIn, signOut, SECRET_KEY,
                   cipher, secretRows, secretResp, extractIn, extractOut, ui>>

\* the PA-API form writes a field of its namespace
SetPaapiField ==
    \E field \in PaapiSetFields, value \in FieldValues : SetPaapiFieldOf(field, value)

ClearPaapi ==
    /\ store' = clearPaapi(store)
    /\ UNCHANGED <<settingsTable, impl, urls, idx, results, pc, attempt, timers, waits,
                   lastErr, resolution,
                   expandResp, settings, lookup, outbound, signIn, signOut, SECRET_KEY,
                   cipher, secretRows, secretResp, extractIn, extractOut, ui>>

SetAsinExpanderFieldOf(field, value) ==
    /\ store' = setAsinExpanderField(store, field, value)
    /\ UNCHANGED <<settingsTable, impl, urls, idx, results, pc, attempt, timers, waits,
                   lastErr, resolution,
                   expandResp, settings, lookup, outbound, signIn, signOut, SECRET_KEY,
                   cipher, secretRows, secretResp, extractIn, extractOut, ui>>

\* the text field of the expander, or another caller, writes a field
SetAsinExpanderField ==
    \E field \in ExpanderSetFields, value \in FieldValues :
        SetAsinExpanderFieldOf(field, value)

ClearAsinExpander ==
    /\ store' = clearAsinExpander(store)
    /\ UNCHANGED <<settingsTable, impl, urls, idx, results, pc, attempt, timers, waits,
                   lastErr, resolution,
                   expandResp, settings, lookup, outbound, signIn, signOut, SECRET_KEY,
                   cipher, secretRows, secretResp, extractIn, extractOut, ui>>

\* clearAll of the component: the button is never disabled
ClearAll ==
    /\ store' = setAsinExpanderField(setAsinExpanderField(store, "rawInput", JsString(<<>>)),
                                     "results", JsList(<<>>))
    /\ ui' = [ui EXCEPT !.error = NoError, !.cleared = TRUE]
    /\ UNCHANGED <<settingsTable, impl, urls, idx, results, pc, attempt, timers, waits,
                   lastErr, resolution,
                   expandResp, settings, lookup, outbound, signIn, signOut, SECRET_KEY,
                   cipher, secretRows, secretResp, extractIn, extractOut>>

\* handleExpand up to its await: the button is disabled while loading or
\* when the input holds no URL
HandleExpand ==
    /\ ~ui.loading
    /\ store.asinExpander.rawInput.t = "string"
    /\ parseInputToUrls(store.asinExpander.rawInput.s) # <<>>
    /\ store' = setAsinExpanderField(store, "results", JsList(<<>>))
    /\ ui' = [loading |-> TRUE, error |-> NoError, cleared |-> FALSE]
    /\ UNCHANGED <<settingsTable, impl, urls, idx, results, pc, attempt, timers, waits,
                   lastErr, resolution,
                   expandResp, settings, lookup, outbound, signIn, signOut, SECRET_KEY,
                   cipher, secretRows, secretResp, extractIn, extractOut>>

\* handleExpand after its await: the answer of the request, or its failure
ExpandAnswered ==
    /\ ui.loading
    /\ \/ \E rs \in AnswerResults :
            /\ store' = setAsinExpanderField(store, "results", JsList(rs))
            /\ ui' = [ui EXCEPT !.loading = FALSE]
       \/ \E e \in AnswerErrors :
            /\ ui' = [ui EXCEPT !.loading = FALSE, !.error = e]
            /\ UNCHANGED store
    /\ UNCHANGED <<settingsTable, impl, urls, idx, results, pc, attempt, timers, waits,
                   lastErr, resolution,
                   expandResp, settings, lookup, outbound, signIn, signOut, SECRET_KEY,
                   cipher, secretRows, secretResp, extractIn, extractOut>>

InitClient ==
    /\ impl = "robust" /\ urls = <<>> /\ idx = 1 /\ results = <<>> /\ pc = "done"
    /\ attempt = 0 /\ timers = {} /\ waits = <<>> /\ lastErr = NoOutcome
    /\ resolution = NoResolution
    /\ expandResp = NoResp
    /\ settings = EmptyStore
    /\ lookup = LookupIdle
    /\ outbound = <<>>
    /\ signIn = <<>>
    /\ signOut = NoSign
    /\ SECRET_KEY = NoPassphrase
    /\ cipher = CipherIdle
    /\ secretRows = NoSecrets
    /\ secretResp = NoSecretResp
    /\ extractIn = <<>>
    /\ extractOut = NotExtracted
    /\ store = InitialStore
    /\ ui = UiIdle
    /\ settingsTable = EmptyTable

NextClient ==
    \/ SetPaapiField
    \/ ClearPaapi
    \/ SetAsinExpanderField
    \/ ClearAsinExpander
    \/ ClearAll
    \/ HandleExpand
    \/ ExpandAnswered

\* the store of the web client under the operations of both workflows
ClientSpec == InitClient /\ [][NextClient]_vars

----------------------------------------------------------------------------
(* Specifications *)

\* a batch request has arrived; no lookup in progress, nothing stored
InitExpand ==
    /\ impl \in {"routes", "robust"}
    /\ urls \in SeqsUpTo(UrlInputs, MaxUrls)
    /\ idx = 1
    /\ results = <<>>
    /\ pc = "loop"
    /\ attempt = 0
    /\ timers = {}
    /\ waits = <<>>
    /\ lastErr = NoOutcome
    /\ resolution = NoResolution
    /\ expandResp = NoResp
    /\ settings = EmptyStore
    /\ lookup = LookupIdle
    /\ outbound = <<>>
    /\ signIn = <<>>
    /\ signOut = NoSign
    /\ SECRET_KEY = NoPassphrase
    /\ cipher = CipherIdle
    /\ secretRows = NoSecrets
    /\ secretResp = NoSecretResp
    /\ extractIn = <<>>
    /\ extractOut = NotExtracted
    /\ store = InitialStore
    /\ ui = UiIdle
    /\ settingsTable = EmptyTable

\* the server just started: nothing stored, no request in progress
InitLookup ==
    /\ impl = "robust" /\ urls = <<>> /\ idx = 1 /\ results = <<>> /\ pc = "done"
    /\ attempt = 0 /\ timers = {} /\ waits = <<>> /\ lastErr = NoOutcome
    /\ resolution = NoResolution
    /\ expandResp = NoResp
    /\ settings = EmptyStore
    /\ lookup = LookupIdle
    /\ outbound = <<>>
    /\ signIn = <<>>
    /\ signOut = NoSign
    /\ SECRET_KEY = NoPassphrase
    /\ cipher = CipherIdle
    /\ secretRows = NoSecrets
    /\ secretResp = NoSecretResp
    /\ extractIn = <<>>
    /\ extractOut = NotExtracted
    /\ store = InitialStore
    /\ ui = UiIdle
    /\ settingsTable = EmptyTable

\* a stored configuration and the arguments of a call of signPaapiRequest
InitSign ==
    /\ impl = "robust" /\ urls = <<>> /\ idx = 1 /\ results = <<>> /\ pc = "done"
    /\ attempt = 0 /\ timers = {} /\ waits = <<>> /\ lastErr = NoOutcome
    /\ resolution = NoResolution
    /\ expandResp = NoResp
    /\ settings \in StoredConfigs
    /\ lookup = LookupIdle
    /\ outbound = <<>>
    /\ signIn \in SignInputs
    /\ signOut = NoSign
    /\ SECRET_KEY = NoPassphrase
    /\ cipher = CipherIdle
    /\ secretRows = NoSecrets
    /\ secretResp = NoSecretResp
    /\ extractIn = <<>>
    /\ extractOut = NotExtracted
    /\ store = InitialStore
    /\ ui = UiIdle
    /\ settingsTable = EmptyTable

\* the expander serving one batch request
ExpandSpec == InitExpand /\ [][NextExpand]_vars

\* the steps that wait for nothing outside the process
Continuations == ExpandReject \/ BeginUrl \/ BackoffElapses \/ ExpandFinish

\* the PA-API lookup beside the configuration routes
LookupSpec == InitLookup /\ [][NextLookup]_vars

\* the signer on arbitrary arguments, and the lookup over a stored configuration
SignSpec == InitSign /\ [][NextSign]_vars

\* the cipher on arbitrary plaintexts, passphrases and alterations
CipherSpec == InitCipher /\ [][NextCipher]_vars

\* the secrets routes over a table whose rows may have been altered
SecretsSpec == InitSecrets /\ [][NextSecrets]_vars

InitSignTwice ==
    /\ impl = "robust" /\ urls = <<>> /\ idx = 1 /\ results = <<>> /\ pc = "done"
    /\ attempt = 0 /\ timers = {} /\ waits = <<>> /\ lastErr = NoOutcome
    /\ resolution = NoResolution
    /\ expandResp = NoResp
    /\ settings = EmptyStore
    /\ lookup = LookupIdle
    /\ outbound = <<>>
    /\ signIn \in [first : SignArguments, second : SignArguments]
    /\ signOut = <<>>
    /\ SECRET_KEY = NoPassphrase
    /\ cipher = CipherIdle
    /\ secretRows = NoSecrets
    /\ secretResp = NoSecretResp
    /\ extractIn = <<>>
    /\ extractOut = NotExtracted
    /\ store = InitialStore
    /\ ui = UiIdle
    /\ settingsTable = EmptyTable

\* two calls of signPaapiRequest on arguments drawn independently
SignTwiceSpec == InitSignTwice /\ [][NextSignTwice]_vars

InitTable ==
    /\ impl = "robust" /\ urls = <<>> /\ idx = 1 /\ results = <<>> /\ pc = "done"
    /\ attempt = 0 /\ timers = {} /\ waits = <<>> /\ lastErr = NoOutcome
    /\ resolution = NoResolution
    /\ expandResp = NoResp
    /\ settings = EmptyStore
    /\ lookup = LookupIdle
    /\ outbound = <<>>
    /\ signIn = <<>>
    /\ signOut = NoSign
    /\ SECRET_KEY = NoPassphrase
    /\ cipher = CipherIdle
    /\ secretRows = NoSecrets
    /\ secretResp = NoSecretResp
    /\ extractIn = <<>>
    /\ extractOut = NotExtracted
    /\ store = InitialStore
    /\ ui = UiIdle
    /\ settingsTable = EmptyTable

\* upserts and deletes on the settings table, with the clock running
TableSpec == InitTable /\ [][NextTable]_vars

InitExtract ==
    /\ impl \in {"routes", "robust"}
    /\ urls = <<>> /\ idx = 1 /\ results = <<>> /\ pc = "done"
    /\ attempt = 0 /\ timers = {} /\ waits = <<>> /\ lastErr = NoOutcome
    /\ resolution = NoResolution
    /\ expandResp = NoResp
    /\ settings = EmptyStore
    /\ lookup = LookupIdle
    /\ outbound = <<>>
    /\ signIn = <<>>
    /\ signOut = NoSign
    /\ SECRET_KEY = NoPassphrase
    /\ cipher = CipherIdle
    /\ secretRows = NoSecrets
    /\ secretResp = NoSecretResp
    /\ extractIn \in ExtractUrls
    /\ extractOut = NotExtracted
    /\ store = InitialStore
    /\ ui = UiIdle
    /\ settingsTable = EmptyTable

\* extractAsin of either variant on URLs with markers in every order
ExtractSpec == InitExtract /\ [][NextExtract]_vars

----------------------------------------------------------------------------
(* Claims about the expander *)

Present(v) == v # JsNull

\* the entry and the input of the URL whose resolution ended last
LastEntry == results[Len(results)]
LastUrl == urls[Len(results)]

\* the transient failures, as the retry policy lists them
ListedTransient(e) ==
    /\ e.k = "err"
    /\ \/ e.name = "AbortError"
       \/ e.code \in {"ECONNRESET", "ENOTFOUND", "ECONNREFUSED"}

\* every attempt of the last resolution failed transiently, up to the limit
Exhausted ==
    /\ Len(results) >= 1
    /\ ListedTransient(resolution.last)
    /\ impl = "robust" => resolution.attempts = 4

\* a 10-character code bounded by '/', '?' or the end occurs in the string
ContainsCode(s) == HasMatch(s, MarkerAny)

ExactlyOne(entry) == Present(entry.asin) # Present(entry.error)

\* C1: every outcome of the expand batch has exactly one of asin and error
\* present (non-null), in the results being built and in the answer sent.
C1_ExactlyOneOfAsinError ==
    /\ \A i \in 1..Len(results) : ExactlyOne(results[i])
    /\ \A i \in 1..Len(expandResp.results) : ExactlyOne(expandResp.results[i])

\* an answer holding a code-carrying entry and an entry made by the catch
C1_Witness ==
    /\ pc = "done" /\ expandResp.status = 200
    /\ \E i, j \in 1..Len(expandResp.results) :
         /\ Present(expandResp.results[i].asin)
         /\ expandResp.results[j].error = Text("finalUrl.match is not a function")

\* C2: a non-empty batch is answered 200 with one entry per input in input
\* order, each entry echoing its input, whatever failed on the way; an entry
\* once pushed is never dropped, moved or changed by the URLs after it.
C2_Inv ==
    /\ Len(results) <= Len(urls)
    /\ Len(results) = idx - 1
    /\ \A i \in 1..Len(results) : results[i].url = urls[i]
    /\ (pc = "done" /\ urls # <<>>) =>
           /\ expandResp.status = 200
           /\ Len(expandResp.results) = Len(urls)
           /\ \A i \in 1..Len(urls) : expandResp.results[i].url = urls[i]

C2_Stable ==
    /\ Len(results') >= Len(results)
    /\ \A i \in 1..Len(results) : results'[i] = results[i]

C2_BatchNeverAborts == [](C2_Inv) /\ [][C2_Stable]_vars

\* a full-length answer whose first entry is a caught failure and whose last carries a code
C2_Witness ==
    /\ pc = "done" /\ Len(urls) = MaxUrls
    /\ Present(expandResp.results[1].error)
    /\ expandResp.results[1].finalUrl = JsNull
    /\ Present(expandResp.results[Len(urls)].asin)

\* C3 as claimed: a URL whose attempts all fail transiently up to the limit
\* gets an entry with an error, no code, and its own URL as the final URL.
C3_ExhaustedAlwaysError ==
    Exhausted =>
        /\ Present(LastEntry.error)
        /\ ~Present(LastEntry.asin)
        /\ LastEntry.finalUrl = LastUrl

\* C3 as amended: for a URL string whose attempts all fail transiently up to
\* the limit, the entry echoes the URL as the final URL and extraction runs on
\* that URL: the entry has an error and no code exactly when the URL itself
\* holds no 10-character code, and the code and no error otherwise.  An entry
\* that is no string (an array wrapping the URL) ends in the catch of the
\* loop: final URL null, no code, an error.
C3_ExhaustedFallsBackToInput ==
    Exhausted =>
        IF LastUrl.t = "string"
        THEN /\ LastEntry.finalUrl = LastUrl
             /\ Present(LastEntry.error) = ~ContainsCode(LastUrl.s)
             /\ Present(LastEntry.asin) = ContainsCode(LastUrl.s)
        ELSE /\ LastEntry.finalUrl = JsNull
             /\ Present(LastEntry.error)
             /\ ~Present(LastEntry.asin)

\* the short URL timed out four times and its entry reports the error
C3_Witness ==
    /\ Exhausted /\ impl = "robust"
    /\ resolution.last = AbortErr
    /\ LastUrl = JsString(ShortUrl)
    /\ LastEntry.error = Text("ASIN not found")
    /\ LastEntry.finalUrl = JsString(ShortUrl)

\* C4: when a resolution ends without a response (retries exhausted or a
\* non-transient error), expandShortAmazonUrl returns normally and what it
\* hands to the extraction is exactly the input URL.
C4_FailureFallsBackToInput ==
    (Len(results) >= 1 /\ resolution.last.k = "err") =>
        /\ ~resolution.short.threw
        /\ resolution.short.val = LastUrl

\* a non-transient error on the second attempt, after one transient failure
C4_Witness ==
    /\ Len(results) >= 1 /\ impl = "robust"
    /\ resolution.last = Err("FetchError", "ETIMEDOUT")
    /\ resolution.attempts = 2
    /\ resolution.short.val = LastUrl

\* C5: a further attempt is issued only after an attempt that failed with a
\* listed transient error; any other error ends the resolution at once, with
\* no further attempt and no backoff wait after it.
C5_Inv ==
    /\ pc = "backoff" => ListedTransient(lastErr)
    /\ (Len(results) >= 1 /\ resolution.last.k = "err" /\ ~ListedTransient(resolution.last)) =>
           Len(resolution.waits) = resolution.attempts - 1

C5_Step ==
    /\ (attempt >= 1 /\ attempt' = attempt + 1) => (pc = "backoff" /\ ListedTransient(lastErr))
    /\ (pc = "fetching" /\ pc' = "backoff") => ListedTransient(lastErr')

C5_RetryOnlyOnTransient == [](C5_Inv) /\ [][C5_Step]_vars

\* a non-transient error ended the resolution at its third attempt
C5_Witness ==
    /\ Len(results) >= 1 /\ impl = "robust"
    /\ resolution.last = Err("FetchError", "")
    /\ resolution.attempts = 3
    /\ Len(resolution.waits) = 2

\* C6: the attempt that obtains a response, whatever its status, is the last
\* attempt of the resolution, and the resolved URL is the URL of that response.
C6_Inv ==
    (Len(results) >= 1 /\ resolution.last.k = "resp") =>
        /\ resolution.short.val = JsString(resolution.last.url)
        /\ LastEntry.finalUrl = JsString(resolution.last.url)

C6_Step ==
    (pc = "fetching" /\ Len(results') = Len(results) + 1 /\ resolution'.last.k = "resp") =>
        /\ resolution'.attempts = attempt
        /\ pc' = "loop" /\ attempt' = 0

C6_ResponseEndsResolution == [](C6_Inv) /\ [][C6_Step]_vars

\* a 404 response obtained at the second attempt
C6_Witness ==
    /\ Len(results) >= 1 /\ impl = "robust"
    /\ resolution.last = Resp(RespDpUrl, 404)
    /\ resolution.attempts = 2
    /\ Present(LastEntry.asin)

\* what is left to do, counted in steps: 10 per URL not yet begun, and two
\* per attempt still allowed to the URL in hand
Rank ==
    CASE pc = "done" -> 0
      [] pc = "loop" -> (Len(urls) - idx + 1) * 10 + 1
      [] pc = "fetching" -> (Len(urls) - idx) * 10 + 1 + 2 * (4 - attempt) + 2
      [] OTHER -> (Len(urls) - idx) * 10 + 1 + 2 * (4 - attempt) + 1

\* C7: with robustFetch a resolution makes at least one and at most 4
\* attempts and returns a final URL (for a URL string: a non-empty string)
\* without throwing; it always ends: a fetch in flight has its abort timer
\* armed, everywhere else the handler has a step of its own to take, and
\* every step brings the request nearer to its end.
C7_Inv ==
    impl = "robust" =>
        /\ attempt \in 0..4
        /\ pc \in {"loop", "backoff"} => ENABLED Continuations
        /\ pc = "fetching" => attempt \in timers
        /\ Len(results) >= 1 =>
               /\ resolution.attempts \in 1..4
               /\ ~resolution.short.threw
               /\ LastUrl.t = "string" =>
                      (resolution.short.val.t = "string" /\ resolution.short.val.s # <<>>)

C7_Step == impl = "robust" => (Rank' < Rank /\ Rank' >= 0)

C7_ResolutionTerminates == [](C7_Inv) /\ [][C7_Step]_vars

\* a response obtained at the fourth and last attempt
C7_Witness ==
    /\ pc = "done" /\ impl = "robust"
    /\ resolution.attempts = 4
    /\ resolution.last.k = "resp"

RECURSIVE SumSeq(_)
SumSeq(q) == IF q = <<>> THEN 0 ELSE Head(q) + SumSeq(Tail(q))

----------------------------------------------------------------------------
(* Claims about the PA-API lookup and the signer *)

IsBlank(str) == \A i \in 1..Len(str) : IsSpace(str[i])

\* the stored credential set is absent, or lacks a key or the partner tag
BadCredentials(cfg) ==
    \/ cfg.null
    \/ cfg.accessKey = <<>>
    \/ cfg.secretKey = <<>>
    \/ IsBlank(cfg.partnerTag)

\* C9: a lookup over a stored credential set that is absent, lacks the access
\* key or the secret key, or has a missing or blank partner tag is answered
\* 400, and no outbound call is made for that request.
C9_ConfigGateBeforeNetwork ==
    (lookup.pc # "idle" /\ BadCredentials(lookup.cfg)) =>
        /\ lookup.pc = "done"
        /\ lookup.status = 400
        /\ outbound = <<>>

\* both keys stored, the partner tag stored blank: answered 400, nothing sent
C9_Witness ==
    /\ lookup.pc = "done" /\ lookup.status = 400
    /\ lookup.error = "partnerTag not configured"
    /\ ~lookup.cfg.null
    /\ lookup.cfg.accessKey # <<>> /\ lookup.cfg.secretKey # <<>>
    /\ lookup.cfg.partnerTag = <<>>
    /\ outbound = <<>>

HalfPopulated(accessKey, secretKey) == accessKey = <<>> \/ secretKey = <<>>

----------------------------------------------------------------------------
(* Claims about the remote call of the lookup *)

Answered == lookup.pc = "done" /\ lookup.remote # NoRemote

\* C11 as claimed: a lookup that passed the gate has made exactly one outbound
\* POST; answered by a non-success status it makes no second call and passes
\* on that status and the body of the remote response as it was.
C11_OneCallStatusAndBodyPreserved ==
    /\ lookup.pc = "awaiting" => (Len(outbound) = 1 /\ outbound[1].method = "POST")
    /\ Answered => Len(outbound) = 1
    /\ (Answered /\ ~RespOk(lookup.remote.status)) =>
           /\ lookup.status = lookup.remote.status
           /\ lookup.statusCode = lookup.remote.status
           /\ lookup.errorData = lookup.remote.body

\* the item list the two shapes of a body give: the nested list when there is
\* one, else the top-level list when there is one, else none
ExpectedItems(body) ==
    IF body[1] = "object" /\ body[2] = "withItems" THEN NestedItems
    ELSE IF body[1] = "object" /\ body[3] = "list" THEN TopItems
    ELSE <<>>

\* C12 as claimed: a success response is answered 200 with the nested list
\* when present, else the top-level list when present, else an empty list,
\* whatever the body, a body that is no JSON or holds neither list included.
C12_ItemsFromEitherShapeOrEmpty ==
    (Answered /\ RespOk(lookup.remote.status)) =>
        /\ lookup.status = 200
        /\ lookup.items = ExpectedItems(lookup.remote.body)

Payload(call, member) ==
    (CHOOSE m \in Range(call.body) : m[1] = member)[2]

\* C13: each of marketplace, region and host of the outbound call is the
\* default when the stored field is empty or has no row, and the stored
\* value itself otherwise.
C13_DefaultsForBlankFields ==
    (lookup.pc \in {"awaiting", "done"} /\ outbound # <<>>) =>
        LET call == outbound[1]
            cfg == lookup.cfg
        IN  /\ Payload(call, "Marketplace") =
                   IF cfg.marketplace = <<>> THEN <<"www.amazon.com">> ELSE cfg.marketplace
            /\ call.signedWith.region =
                   IF cfg.region = <<>> THEN <<"us-east-1">> ELSE cfg.region
            /\ call.headers.host =
                   IF cfg.host = <<>> THEN <<"webservices.amazon.com">> ELSE cfg.host
            /\ call.url = <<"https://">> \o call.headers.host \o <<"/paapi5/getitems">>

\* a call made with a stored region and the default host and marketplace
C13_Witness ==
    /\ lookup.pc = "awaiting" /\ Len(outbound) = 1
    /\ lookup.cfg.region = <<"r">> /\ outbound[1].signedWith.region = <<"r">>
    /\ lookup.cfg.host = <<>> /\ outbound[1].headers.host = <<"webservices.amazon.com">>
    /\ lookup.cfg.marketplace = <<>>
    /\ Payload(outbound[1], "Marketplace") = <<"www.amazon.com">>

----------------------------------------------------------------------------
(* Claims about the secret cipher *)

Decrypted == cipher.pc = "decrypted"

\* the running process derives the key the envelope was made with
SameKey == getAesKey(SECRET_KEY) = getAesKey(cipher.encKey)

\* C14 as claimed: whatever the plaintext string and the iv drawn, an envelope
\* decrypted unaltered under the key it was made with gives back exactly the
\* plaintext.
C14_RoundTrip ==
    (Decrypted /\ cipher.how = NoAlteration /\ SameKey) =>
        /\ ~cipher.out.threw
        /\ cipher.out.val = cipher.plaintext

\* C15 as claimed: decrypt fails on an envelope opened under another key and
\* on an envelope in which one base64 character of a segment was replaced;
\* what it returns is never another plaintext than the one encrypted.
C15_TamperFailsClosed ==
    /\ (Decrypted /\ (~SameKey \/ cipher.how.kind = "flip")) => cipher.out.threw
    /\ (Decrypted /\ ~cipher.out.threw) =>
           Utf8Encode(cipher.out.val) = Utf8Encode(cipher.plaintext)

\* C16 as claimed: decrypt fails on every serialized text that does not
\* split into exactly three segments, fewer or more.
C16_SegmentCountChecked ==
    (Decrypted /\ Len(Split(cipher.sent)) # 3) => cipher.out.threw

TooShort(p) == p = <<>> \/ Len(p) < 32

SharedPrefix(p, q) ==
    /\ ~TooShort(p) /\ ~TooShort(q)
    /\ SubSeq(p, 1, 32) = SubSeq(q, 1, 32)

\* C17: with the passphrase absent or shorter than 32 characters no key is
\* derived and every encrypt and every decrypt fails; with 32 characters or
\* more a key is derived from the first 32 alone, so passphrases sharing
\* them derive one key and open each other's envelopes.
C17_KeyFromFirst32 ==
    /\ \A p \in Passphrases : getAesKey(p).null = TooShort(p)
    /\ \A p, q \in Passphrases : SharedPrefix(p, q) => getAesKey(p) = getAesKey(q)
    /\ (cipher.pc \notin {"idle", "start"} /\ TooShort(cipher.encKey)) => cipher.pc = "failed"
    /\ (Decrypted /\ TooShort(SECRET_KEY)) => cipher.out.threw
    /\ (Decrypted /\ cipher.how = NoAlteration /\ SharedPrefix(SECRET_KEY, cipher.encKey)) =>
           ~cipher.out.threw

\* an envelope made under 32 characters opened under 33 that begin with them
C17_Witness ==
    /\ Decrypted /\ cipher.how = NoAlteration
    /\ cipher.encKey = Pass32 /\ SECRET_KEY = Pass33
    /\ ~cipher.out.threw
    /\ cipher.out.val = cipher.plaintext

----------------------------------------------------------------------------
(* Claims about the secrets routes *)

\* the stored text of the row is what PutSecret wrote, and the process still
\* holds the passphrase it was written under
Intact(row) == row.how = "none" /\ row.key = SECRET_KEY

\* what a read with values shows for a row: the stored text as it reads
\* back from its UTF-8 bytes
Shown(row) == IF Intact(row) THEN JsString(Utf8Decode(Utf8Encode(row.plain))) ELSE JsNull

ReadWithValues == secretResp.kind \in {"list", "get"} /\ secretResp.withValues

\* C18: a read of secrets with decryption succeeds whatever the state of the
\* stored envelopes: a listing answers 200 with one entry per row, a single
\* read answers 200 for an existing row; an entry whose envelope cannot be
\* decrypted has the value null, and every other entry has the value that was
\* stored, whatever the other rows are.
C18_UndecryptableReadsAsNull ==
    ReadWithValues =>
        LET names == RowNames(secretRows, SecretNames) IN
        IF secretResp.kind = "list"
        THEN /\ secretResp.status = 200
             /\ Len(secretResp.body) = Len(names)
             /\ \A i \in 1..Len(names) :
                  /\ secretResp.body[i].name = names[i]
                  /\ secretResp.body[i].value = Shown(secretRows[names[i]])
                  /\ decryptSecret(SECRET_KEY, secretRows[names[i]].env).threw
                         <=> secretResp.body[i].value = JsNull
        ELSE \/ secretResp.status = 404
             \/ /\ secretResp.status = 200
                /\ secretResp.body[1].value = Shown(secretRows[secretResp.body[1].name])

\* a listing with one undecryptable row and one row shown in clear
C18_Witness ==
    /\ ReadWithValues
    /\ secretResp.kind = "list"
    /\ secretResp.status = 200
    /\ Len(secretResp.body) = 2
    /\ secretResp.body[1].value = JsNull
    /\ secretResp.body[2].value # JsNull
    /\ secretRows["one"].how = "flip"

----------------------------------------------------------------------------
(* Claims about extractAsin *)

Priority == <<MarkerDp, MarkerGpProduct, MarkerGpAwD, MarkerProduct>>

\* the upper-cased codes a pattern captures somewhere in s
Captures(s, marker) ==
    {ToUpperCase(SubSeq(s, i + Len(marker), i + Len(marker) + AsinLen - 1)) :
        i \in {j \in 1..Len(s) : MatchesAt(s, j, marker)}}

\* C19: the code returned is the upper-cased 10-character capture of the
\* first of /dp/, /gp/product/, /gp/aw/d/, /product/ that matches the URL,
\* wherever lower-priority markers or bare 10-character segments stand, and
\* the capture of a bare segment only when none of the four matches.
C19_HighestPriorityPatternWins ==
    extractOut.called =>
        /\ ~extractOut.threw
        /\ \A k \in 1..Len(Priority) :
             (/\ HasMatch(extractIn, Priority[k])
              /\ \A h \in 1..(k - 1) : ~HasMatch(extractIn, Priority[h]))
             => \E c \in Captures(extractIn, Priority[k]) : extractOut.val = JsString(c)
        /\ (\A k \in 1..Len(Priority) : ~HasMatch(extractIn, Priority[k]))
             => IF HasMatch(extractIn, MarkerAny)
                THEN \E c \in Captures(extractIn, MarkerAny) : extractOut.val = JsString(c)
                ELSE extractOut.val = JsNull
        /\ extractOut.val # JsNull
             => /\ Len(extractOut.val.s) = AsinLen
                /\ ToUpperCase(extractOut.val.s) = extractOut.val.s

----------------------------------------------------------------------------
(* Claims about the stored credential set *)

\* the six rows one accepted PUT /api/config/paapi leaves in the store
WrittenTogether ==
    {upsertPaapiConfig(EmptyStore,
         [accessKey |-> Trim(b.accessKey), secretKey |-> Trim(b.secretKey),
          partnerTag |-> Trim(OrEmpty(b.partnerTag)),
          marketplace |-> Trim(OrEmpty(b.marketplace)),
          region |-> Trim(OrEmpty(b.region)), host |-> Trim(OrEmpty(b.host))]) :
        b \in {c \in PutBodies : c.accessKey # NotAString /\ c.secretKey # NotAString}}

\* C20: whatever writes of the store have been interleaved, a read of the
\* credential set finds either no credentials or the six fields exactly as
\* one single credential upsert wrote them together.
C20_CredentialsWrittenWholesale ==
    getPaapiConfig(settings).null \/ settings \in WrittenTogether

----------------------------------------------------------------------------
(* Claims about two calls of signPaapiRequest *)

BothSigned == Len(signOut) = 2

\* the two calls have the same arguments but for the body
SameButBody == [signIn.first EXCEPT !.body = signIn.second.body] = signIn.second

PayloadHashOf(r) == Hex(Sha256(r.payload))
SignatureOf(r) == r.authorizationHeader.signature

----------------------------------------------------------------------------
(* Claims about what the lookup sends *)

\* an outbound call without the request kept beside it
CallOnly(c) == [f \in DOMAIN c \ {"request"} |-> c[f]]

\* C22: the outbound request of a lookup is determined by the stored
\* credential set, the product codes and the timestamp alone: whatever
\* credential fields the request body carries, the call is the one built and
\* signed from the stored configuration, so two requests with the same codes
\* against the same stored configuration send the same request.
C22_OutboundFromStoredCredentialsOnly ==
    \A i \in 1..Len(outbound) :
        LET r == outbound[i].request IN
        /\ CallOnly(outbound[i]) = OutboundCall(r.stored, r.asins, r.now)
        /\ \A other \in RequestCredentials :
             OutboundCall(HandlerConfig(settings, other), r.asins, r.now)
                 = OutboundCall(HandlerConfig(settings, r.bodyCredentials), r.asins, r.now)

\* a call issued for a request whose body carried other credentials
C22_Witness ==
    /\ Len(outbound) = 1
    /\ outbound[1].request.bodyCredentials = FormCredentials
    /\ outbound[1].signedWith.accessKey = outbound[1].request.stored.accessKey
    /\ outbound[1].signedWith.accessKey # FormCredentials.accessKey

----------------------------------------------------------------------------
(* Claims about the timers of robustFetch *)

\* C23: while a URL is resolved at most one fetch attempt is in flight and
\* at most one timeout timer is armed; an armed timer belongs to the attempt
\* in flight, so the timer of an attempt is gone once the attempt has
\* returned or failed, never lives into the next attempt, and none is armed
\* during a backoff or after the resolution has returned.
C23_OneAttemptOneTimer ==
    /\ Cardinality(InFlight) <= 1
    /\ Cardinality(timers) <= 1
    /\ timers \subseteq InFlight
    /\ pc \in {"loop", "backoff", "done"} => timers = {}
    /\ (pc = "fetching" /\ impl = "robust") => timers = {attempt}

\* a second attempt in flight after the first one failed, with its own timer only
C23_Witness ==
    /\ impl = "robust" /\ pc = "fetching" /\ attempt = 2
    /\ Len(waits) = 1
    /\ timers = {2}

----------------------------------------------------------------------------
(* Claims about the signing key chain *)

\* the parts of a signature: the HMAC under it, then the key of each step
SignedTerm(r) == SignatureOf(r)[2]
KeyOf(h) == h[2]
MessageOf(h) == h[3]
ScopeOf(r) == r.authorizationHeader.credential[2]

\* the chain under the signature of the call with arguments a and result r
ChainAsClaimed(a, r) ==
    LET kSigning == KeyOf(SignedTerm(r))
        kService == KeyOf(kSigning)
        kRegion == KeyOf(kService)
        kDate == KeyOf(kRegion)
        stringToSign == MessageOf(SignedTerm(r))
    IN  /\ SignedTerm(r)[1] = "hmac"
        /\ MessageOf(kSigning) = "aws4_request"
        /\ MessageOf(kService) = "ProductAdvertisingAPI"
        /\ MessageOf(kService) = ScopeOf(r)[3]
        /\ MessageOf(kRegion) = a.region
        /\ MessageOf(kRegion) = ScopeOf(r)[2]
        /\ MessageOf(kDate) = ScopeOf(r)[1]
        /\ KeyOf(kDate) = <<"AWS4", a.secretKey>>
        /\ ScopeOf(r)[4] = "aws4_request"
        /\ ScopeOf(r)[1] = SubSeq(StripIso(a.now), 1, 8)
        /\ Len(ScopeOf(r)[1]) = 8
        /\ stringToSign[2] = r.amzDate
        /\ stringToSign[3] = ScopeOf(r)

\* C24: the signature is the HMAC of the string-to-sign under kSigning, with
\* kDate = HMAC('AWS4' + secretKey, dateStamp), kRegion = HMAC(kDate, region),
\* kService = HMAC(kRegion, service), kSigning = HMAC(kService,
\* 'aws4_request'); dateStamp, region and service of the chain are those of
\* the credential scope, and dateStamp is the first 8 characters of the
\* timestamp.
C24_KeyChainMatchesScope ==
    /\ Len(signOut) >= 1 => ChainAsClaimed(signIn.first, signOut[1])
    /\ Len(signOut) >= 2 => ChainAsClaimed(signIn.second, signOut[2])

\* two calls signed for different regions and days
C24_Witness ==
    /\ BothSigned
    /\ signIn.first.region # signIn.second.region
    /\ signIn.first.now # signIn.second.now
    /\ ScopeOf(signOut[1]) # ScopeOf(signOut[2])
    /\ ScopeOf(signOut[2])[2] = OtherRegion

----------------------------------------------------------------------------
(* Claims about the store of the web client *)

\* the fields of a namespace other than the named one are as they were
OnlyFieldChanged(before, after, field, value) ==
    /\ DOMAIN after = DOMAIN before \cup {field}
    /\ after[field] = value
    /\ \A f \in DOMAIN before \ {field} : after[f] = before[f]

\* C25: the operations of one workflow leave the namespace of the other
\* unchanged, and a set-field operation changes only the named field of its
\* own namespace.
C25_NamespacesIsolated ==
    [][/\ (SetPaapiField \/ ClearPaapi) => store'.asinExpander = store.asinExpander
       /\ (SetAsinExpanderField \/ ClearAsinExpander \/ ClearAll
               \/ HandleExpand \/ ExpandAnswered) => store'.paapi = store.paapi
       /\ \A field \in PaapiSetFields, value \in FieldValues :
            SetPaapiFieldOf(field, value)
                => OnlyFieldChanged(store.paapi, store'.paapi, field, value)
       /\ \A field \in ExpanderSetFields, value \in FieldValues :
            SetAsinExpanderFieldOf(field, value)
                => OnlyFieldChanged(store.asinExpander, store'.asinExpander, field, value)
       /\ DOMAIN store' = {"paapi", "asinExpander"}]_vars

\* both namespaces hold values written by their own workflow, and paapi a
\* field named like one of the other namespace
C25_Witness ==
    /\ store.paapi["accessKey"] = JsString(<<"x">>)
    /\ "rawInput" \in DOMAIN store.paapi
    /\ store.asinExpander["rawInput"] = JsString(<<"a.co/1">>)
    /\ store.asinExpander["results"] = JsList(<<"r1">>)

\* C30: after clearAll the stored results stay empty until the user starts
\* another expansion.
C30_ClearedStaysEmpty ==
    ui.cleared => store.asinExpander["results"] = JsList(<<>>)

----------------------------------------------------------------------------
(* Claims about what is sent and what was signed *)

\* the string-to-sign and the canonical request under a signature
StringToSignOf(sig) == MessageOf(sig[2])
CanonicalRequestOf(sig) == StringToSignOf(sig)[4][2][2]
CanonicalHeader(sig, k) == CanonicalRequestOf(sig)[4][k][2]

SentAsSigned(c) ==
    LET sig == c.headers.Authorization.signature
        scope == c.headers.Authorization.credential[2]
    IN  /\ CanonicalRequestOf(sig)[6] = Hex(Sha256(c.body))
        /\ c.headers.xAmzDate = StringToSignOf(sig)[2]
        /\ SubSeq(c.headers.xAmzDate, 1, 8) = scope[1]
        /\ c.headers.contentEncoding = CanonicalHeader(sig, 1)
        /\ c.headers.contentType = CanonicalHeader(sig, 2)
        /\ c.headers.host = CanonicalHeader(sig, 3)
        /\ c.headers.xAmzTarget = CanonicalHeader(sig, 5)
        /\ UrlHostOf(c.url) = CanonicalHeader(sig, 3)

\* C26: in every outbound call the body is the payload whose hash entered
\* the canonical request, x-amz-date is the timestamp of the string-to-sign
\* and of the credential scope, the host header and the host of the URL are
\* the host of the canonical header block, and content-encoding,
\* content-type and x-amz-target are those of the canonical header block.
C26_SentIsWhatWasSigned ==
    \A i \in 1..Len(outbound) : SentAsSigned(outbound[i])

----------------------------------------------------------------------------
(* Claims about the secret store as a map *)

\* every row is as its PUT left it and the key is the one it was written under
AllIntact ==
    /\ ~getAesKey(SECRET_KEY).null
    /\ \A n \in Range(SecretNames) : secretRows[n] = NoSecretRow \/ Intact(secretRows[n])

\* a GET of one name with decryption, just answered
GotWithValue == secretResp.kind = "get" /\ secretResp.withValues

\* C27: with a valid key and rows written by PUT only, a GET of a name with
\* decryption answers 404 when the name was never PUT or was deleted since,
\* and otherwise 200 with the trimmed value of the latest PUT of that name
\* (the rows keep that value per name, so the writes of other names do not
\* count).
C27_GetReturnsLatestPut ==
    (GotWithValue /\ AllIntact) =>
        \/ /\ secretResp.status = 404
           /\ \E n \in Range(SecretNames) : secretRows[n] = NoSecretRow
        \/ /\ secretResp.status = 200
           /\ LET n == secretResp.body[1].name IN
              /\ secretRows[n] # NoSecretRow
              /\ secretResp.body[1].value = JsString(secretRows[n].plain)

\* C28: a PUT whose value is missing, no string or empty after trimming
\* answers 400 and stores nothing, so no stored envelope decrypts to the
\* empty string.
C28_NoEmptySecretStored ==
    \A n \in Range(SecretNames) :
        secretRows[n] # NoSecretRow =>
            /\ secretRows[n].plain # <<>>
            /\ LET r == decryptSecret(secretRows[n].key, secretRows[n].env) IN
               r.threw \/ r.val # <<>>

(* C29: the settings table holds at most one row for a pair (section, name); an upsert on
   a pair that has a row changes that row's value and updated_at only, the row keeps its id
   and its created_at and every other row stays as it was; a delete removes the named row
   and no other *)
OnePerPair(rows) ==
    \A r1 \in rows, r2 \in rows : r1.section = r2.section /\ r1.name = r2.name => r1 = r2

OtherRows(rows, section, name) == {r \in rows : ~(r.section = section /\ r.name = name)}

UpsertKeeps(section, name, value) ==
    LET before == RowsOf(settingsTable, section, name)
        after == RowsOf(settingsTable', section, name)
    IN /\ OtherRows(settingsTable'.rows, section, name)
            = OtherRows(settingsTable.rows, section, name)
       /\ before # {} =>
            \/ after = before
            \/ after = {[r EXCEPT !.value = value, !.updated_at = settingsTable.now]
                            : r \in before}

DeleteRemoves(section, name) ==
    settingsTable'.rows = OtherRows(settingsTable.rows, section, name)

C29_OneRowPerPair ==
    /\ [](OnePerPair(settingsTable.rows))
    /\ [][/\ \A section \in Sections, name \in RowNamesOf :
                \A value \in RowValues \cup {NullValue}, burns \in BOOLEAN :
                    UpsertSettingRowOf(section, name, value, burns)
                        => UpsertKeeps(section, name, value)
          /\ \A section \in Sections, name \in RowNamesOf :
                DeleteSettingRowOf(section, name) => DeleteRemoves(section, name)]_vars

\* a row written again at a later time, next to a row that was inserted after it
C29_Witness ==
    \E r \in settingsTable.rows :
        /\ r.updated_at > r.created_at
        /\ \E o \in settingsTable.rows : o # r /\ o.id > r.id

====
